---- MODULE Spec2Model ----
(***************************************************************************)
(* Element lifecycle runtime of src/src/custom-element.js: the registry of *)
(* element implementations, the upgrade of stubbed elements, layout        *)
(* resolution, build, the action queue, layout/viewport callbacks and the  *)
(* loading indicator.                                                      *)
(*                                                                         *)
(* Elements are records held in the sequence `el` (an element is named by  *)
(* its index).  Every exported function and every prototype method is an   *)
(* operator on element records that returns an outcome record              *)
(*   [el, tr, ev, err, rep, tm, vs, ex, ret]                               *)
(* (new element, hooks invoked on the implementation and the resource      *)
(* tracker, events dispatched, error thrown or "", number of reportError   *)
(* calls, timers scheduled, vsync mutations scheduled, invocations passed  *)
(* to executeAction, return value), and an action that installs the        *)
(* outcome.  The field `hist` of an element is no field of the program: it *)
(* counts what the calls did to the element so far.                        *)
(***************************************************************************)
EXTENDS Integers, Sequences, FiniteSets, TLC

VARIABLES
  TEMPLATE_TAG_SUPPORTED, \* platform constant, custom-element.js:63
  knownElements,          \* name -> "none" | "ElementStub" | implementation class
  ampExtendedElements,    \* win.ampExtendedElements: [defined, names]
  stubbedElements,        \* element-stub.js: elements whose ElementStub was constructed
  el,                     \* the elements created so far
  timers,                 \* pending timer.delay tasks, in scheduling order
  vsyncQueue,             \* pending vsync.mutate tasks, in scheduling order
  deferred,               \* pending resources.deferMutate tasks (container removals)
  promises,               \* pending layout promises, one entry per layoutCallback
  executed,               \* invocations received by implementations' executeAction
  submitted               \* number of invocations handed to enqueAction

vars == <<TEMPLATE_TAG_SUPPORTED, knownElements, ampExtendedElements,
          stubbedElements, el, timers, vsyncQueue, deferred, promises,
          executed, submitted>>

---------------------------------------------------------------------------
(* Bounds of the model. *)

MaxElements == 2
MaxActions == 3
MaxLayouts == 2
MaxPending == 1
MaxQueue == 2

---------------------------------------------------------------------------
(* Program constants. *)

MIN_WIDTH_FOR_LOADING_ == 100
PREPARE_LOADING_THRESHOLD_ == 1000

---------------------------------------------------------------------------
(* ./layout: the Layout enum and the helpers custom-element.js imports. *)

NODISPLAY == "nodisplay"
FIXED == "fixed"
FIXED_HEIGHT == "fixed-height"
RESPONSIVE == "responsive"
CONTAINER == "container"
FILL == "fill"
FLEX_ITEM == "flex-item"

Layout == {NODISPLAY, FIXED, FIXED_HEIGHT, RESPONSIVE, CONTAINER, FILL, FLEX_ITEM}

\* An attribute that is not set reads as null; null and undefined are falsy.
Null == "null"
Undefined == "undefined"

Truthy(v) == v \notin {Null, Undefined, ""}

\* Length strings the page markup may use, and strings that are no length.
Lengths == {"200", "300", "200px", "300px", "10em", "1px"}

parseLayout(s) == IF s \in Layout THEN s ELSE Undefined

parseLength(s) == IF s \in Lengths THEN s ELSE Undefined

getLengthUnits(s) ==
  CASE s \in {"200px", "300px", "1px"} -> "px"
    [] s \in {"10em"} -> "em"
    [] OTHER -> ""

isLayoutSizeDefined(layout) ==
  layout \in {FIXED, FIXED_HEIGHT, RESPONSIVE, FILL, FLEX_ITEM}

Names == {"amp-ad", "amp-embed", "amp-pixel"}

hasNaturalDimensions(tagName) == tagName = "amp-pixel"

getNaturalDimensions(tagName) == [width |-> "1px", height |-> "1px"]

isLoadingAllowed(tagName) == tagName \in {"amp-ad", "amp-embed"}

---------------------------------------------------------------------------
(* Implementation classes.  ElementStub is the placeholder; ImplFull is an *)
(* implementation that supports every layout, ImplBase one that keeps      *)
(* BaseElement's default and supports no layout but NODISPLAY.             *)

ElementStub == "ElementStub"
Classes == {"ImplFull", "ImplBase"}

isLayoutSupported(cls, layout) ==
  CASE cls = ElementStub -> TRUE
    [] cls = "ImplFull" -> TRUE
    [] OTHER -> layout = NODISPLAY

\* new Ctor(element): BaseElement's constructor.
NewImplementation(cls) ==
  [cls |-> cls, layout_ |-> NODISPLAY, layoutWidth_ |-> -1, inViewport_ |-> FALSE]

---------------------------------------------------------------------------
(* Outcome records. *)

Outcome(x) ==
  [el |-> x, tr |-> <<>>, ev |-> <<>>, err |-> "", rep |-> 0,
   tm |-> <<>>, vs |-> <<>>, ex |-> <<>>, ret |-> ""]

Hook(e, h) == [e |-> e, h |-> h]

---------------------------------------------------------------------------
(* applyLayout_, custom-element.js:143-253.  a is the element's attribute  *)
(* record [layout, width, height, sizes, heights, noloading].  The result  *)
(* is [err, layout, ui]: the validation error or "", the layout returned,  *)
(* and the class, style and sizer applied to the element.                  *)

NoUi == [cls |-> "", sizeDefined |-> FALSE, style |-> "", sizer |-> FALSE]

LayoutErrorAfterUi(msg) ==
  [err |-> msg, layout |-> Undefined,
   ui |-> [cls |-> FIXED, sizeDefined |-> TRUE, style |-> "width,height",
           sizer |-> FALSE]]

LayoutError(msg) ==
  [err |-> msg, layout |-> Undefined, ui |-> NoUi]

ApplyUi(layout, width, height) ==
  [cls |-> layout,
   sizeDefined |-> isLayoutSizeDefined(layout),
   style |-> CASE layout = NODISPLAY -> "display:none"
               [] layout = FIXED -> "width,height"
               [] layout = FIXED_HEIGHT -> "height"
               [] layout = FLEX_ITEM ->
                    IF Truthy(width) /\ Truthy(height) THEN "width,height"
                    ELSE IF Truthy(width) THEN "width"
                    ELSE IF Truthy(height) THEN "height"
                    ELSE ""
               [] OTHER -> "",
   sizer |-> layout = RESPONSIVE]

\* Lines 165-177: the effective width and height.
EffectiveSize(a, tagName, inputLayout, inputWidth, inputHeight) ==
  IF /\ (~Truthy(inputLayout) \/ inputLayout = FIXED \/ inputLayout = FIXED_HEIGHT)
     /\ (~Truthy(inputWidth) \/ ~Truthy(inputHeight))
     /\ hasNaturalDimensions(tagName)
  THEN [width |-> IF Truthy(inputWidth) \/ inputLayout = FIXED_HEIGHT
                  THEN inputWidth
                  ELSE getNaturalDimensions(tagName).width,
        height |-> IF Truthy(inputHeight) THEN inputHeight
                   ELSE getNaturalDimensions(tagName).height]
  ELSE [width |-> inputWidth, height |-> inputHeight]

EffectiveLayoutSizesIgnored(a, inputLayout, width, height) ==
  IF Truthy(inputLayout) THEN inputLayout
  ELSE IF ~Truthy(width) /\ ~Truthy(height) THEN CONTAINER
  ELSE IF Truthy(height) /\ (~Truthy(width) \/ width = "auto") THEN FIXED_HEIGHT
  ELSE FIXED

\* Lines 179-191: the effective layout.
EffectiveLayout(a, inputLayout, width, height) ==
  IF Truthy(inputLayout) THEN inputLayout
  ELSE IF ~Truthy(width) /\ ~Truthy(height) THEN CONTAINER
  ELSE IF Truthy(height) /\ (~Truthy(width) \/ width = "auto") THEN FIXED_HEIGHT
  ELSE IF Truthy(height) /\ Truthy(width) /\ (Truthy(a.sizes) \/ Truthy(a.heights))
       THEN RESPONSIVE
  ELSE FIXED

UnitsNotCompared(width, height) == TRUE

\* Lines 208-211 alone: the units of a RESPONSIVE layout must agree.
UnitsAgree(width, height) == getLengthUnits(width) = getLengthUnits(height)

VerifyNothing(a, layout, width, height) == ""

\* Lines 193-215: the assertions on the effective attributes.
VerifyLayout(a, layout, width, height) ==
  IF layout \in {FIXED, FIXED_HEIGHT, RESPONSIVE} /\ ~Truthy(height)
    THEN "Expected height to be available"
  ELSE IF layout = FIXED_HEIGHT /\ ~(~Truthy(width) \/ width = "auto")
    THEN "Expected width to be either absent or equal auto"
  ELSE IF layout \in {FIXED, RESPONSIVE} /\ ~(Truthy(width) /\ width # "auto")
    THEN "Expected width to be available and not equal to auto"
  ELSE IF layout = RESPONSIVE /\ ~UnitsAgree(width, height)
    THEN "Length units should be the same for width and height"
  ELSE IF layout # RESPONSIVE /\ a.heights # Null
    THEN "Unexpected heights attribute for none-responsive layout"
  ELSE ""

applyLayout_(a, tagName) ==
  LET inputLayout == IF Truthy(a.layout) THEN parseLayout(a.layout) ELSE Null
      inputWidth == IF Truthy(a.width) /\ a.width # "auto"
                    THEN parseLength(a.width) ELSE a.width
      inputHeight == IF Truthy(a.height) THEN parseLength(a.height) ELSE Null
  IN
  IF inputLayout = Undefined THEN LayoutError("Unknown layout")
  ELSE IF inputWidth = Undefined THEN LayoutError("Invalid width value")
  ELSE IF inputHeight = Undefined THEN LayoutError("Invalid height value")
  ELSE
    LET size == EffectiveSize(a, tagName, inputLayout, inputWidth, inputHeight)
        layout == EffectiveLayout(a, inputLayout, size.width, size.height)
        bad == VerifyLayout(a, layout, size.width, size.height)
    IN IF bad # "" THEN LayoutError(bad)
       ELSE [err |-> "", layout |-> layout,
             ui |-> ApplyUi(layout, size.width, size.height)]

---------------------------------------------------------------------------
(* Elements. *)

Bool(b) == IF b THEN "true" ELSE "false"

\* What has happened to an element: the 'amp:stubbed' and 'amp:attached'
\* events dispatched on it, the build hooks that returned, whether a build
\* hook threw, the runs of firstAttachedCallback_, the first-attach hooks
\* invoked on a real implementation, the layouts fulfilled and the
\* firstLayoutCompleted hooks invoked.
NoHistory ==
  [events |-> <<>>, buildCallbacks |-> 0, buildFailed |-> FALSE,
   firstAttachRuns |-> 0, firstAttachHooks |-> 0, fulfilled |-> 0,
   firstLayouts |-> 0]

\* ElementProto.createdCallback, custom-element.js:305-384.
createdCallback(name, a, Ctor) ==
  [tagName |-> name,
   attrs |-> a,
   built_ |-> FALSE,
   notbuilt |-> TRUE,
   readyState |-> "loading",
   everAttached |-> FALSE,
   inDocument |-> FALSE,
   inResources |-> FALSE,
   layout_ |-> NODISPLAY,
   layoutWidth_ |-> -1,
   layoutCount_ |-> 0,
   isInViewport_ |-> FALSE,
   ui |-> NoUi,
   loadingDisabled_ |-> Undefined,
   loadingState_ |-> Undefined,
   loadingContainer_ |-> Null,
   implementation_ |-> NewImplementation(Ctor),
   actionQueue_ |-> [defined |-> TRUE, items |-> <<>>],
   isInTemplate_ |-> Undefined,
   hist |-> NoHistory]

\* ElementProto.assertNotTemplate_, :386-389: TRUE when the assertion passes.
assertNotTemplate_(x) == x.isInTemplate_ # "true"

UpgradedAlways(x) == TRUE

\* ElementProto.isUpgraded, :396-398.
isUpgraded(x) == x.implementation_.cls # ElementStub

BuiltAlways(x) == TRUE

\* ElementProto.isBuilt, :436-438.
isBuilt(x) == x.built_

Threw(o, msg) == [o EXCEPT !.err = msg]

\* The early return of upgrade, :408-410.
UpgradeSkipped(x) == x.isInTemplate_ = "true"

ReplayAlways(x) == TRUE

\* The guard of the first-attach replay in upgrade, :420.
ReplayFirstAttach(x) == x.everAttached

LayoutNeverRefused(x, newImplClass) == FALSE

\* The layout check of upgrade, :414-417.
LayoutRefused(x, newImplClass) ==
  x.layout_ # NODISPLAY /\ ~isLayoutSupported(newImplClass, x.layout_)

\* ElementProto.upgrade, :407-428.  beh is what the new implementation's
\* hooks do: "ok", "createdThrows" or "attachedThrows".
upgrade(x, e, newImplClass, beh) ==
  IF UpgradeSkipped(x) THEN Outcome(x)
  ELSE
    LET x1 == [x EXCEPT !.implementation_ = NewImplementation(newImplClass)]
        o1 == [Outcome(x1) EXCEPT !.tr = <<Hook(e, "createdCallback")>>]
    IN
    IF beh = "createdThrows" THEN Threw(o1, "hook: createdCallback")
    ELSE IF LayoutRefused(x1, newImplClass) THEN Threw(o1, "Layout not supported")
    ELSE
      LET x2 == [x1 EXCEPT !.implementation_.layout_ = x1.layout_,
                           !.implementation_.layoutWidth_ = x1.layoutWidth_]
          o2 == [o1 EXCEPT !.el = x2]
      IN
      IF ~ReplayFirstAttach(x2) THEN o2
      ELSE
        LET o3 == [o2 EXCEPT !.tr = Append(@, Hook(e, "firstAttachedCallback"))]
        IN IF beh = "attachedThrows" THEN Threw(o3, "hook: firstAttachedCallback")
           ELSE [o3 EXCEPT !.ev = Append(@, "amp:attached"),
                           !.tr = Append(@, Hook(e, "resources.upgraded"))]

BuildAgain(x) == FALSE

\* The early return of build, :459-461.
BuildDone(x) == isBuilt(x)

DropQueue(x, e) ==
  [x |-> [x EXCEPT !.actionQueue_ = [defined |-> FALSE, items |-> <<>>]], tm |-> <<>>]

\* The queue handling at the end of build, :476-484: the timer scheduled
\* and the queue left on the element.
ScheduleDrain(x, e) ==
  IF x.actionQueue_.defined
  THEN IF Len(x.actionQueue_.items) > 0
       THEN [x |-> x, tm |-> <<[fn |-> "dequeueActions_", e |-> e, ms |-> 1]>>]
       ELSE [x |-> [x EXCEPT !.actionQueue_.defined = FALSE], tm |-> <<>>]
  ELSE [x |-> x, tm |-> <<>>]

ViewportNotDelivered(o, e, inViewport) == o

\* ElementProto.updateInViewport_, :839-842.
updateInViewport_(o, e, inViewport) ==
  [o EXCEPT !.el.implementation_.inViewport_ = inViewport,
            !.tr = Append(@, Hook(e, IF inViewport THEN "viewportCallback(true)"
                                     ELSE "viewportCallback(false)"))]

BuildFailedSilently(o) == [o EXCEPT !.err = "hook: buildCallback"]

BuildFailedQueueLost(o) ==
  [o EXCEPT !.rep = 1, !.err = "hook: buildCallback",
            !.el.actionQueue_ = [defined |-> FALSE, items |-> <<>>]]

\* The catch of build, :469-472: reportError, then throw.
BuildFailed(o) == [o EXCEPT !.rep = 1, !.err = "hook: buildCallback"]

\* ElementProto.build, :457-491.  beh is "ok" or "buildThrows".
build(x, e, beh) ==
  IF ~assertNotTemplate_(x) THEN Threw(Outcome(x), "assert: template")
  ELSE IF BuildDone(x) THEN Outcome(x)
  ELSE IF ~isUpgraded(x) THEN Threw(Outcome(x), "assert: Cannot build unupgraded element")
  ELSE
    LET o1 == [Outcome(x) EXCEPT !.tr = <<Hook(e, "buildCallback")>>]
    IN
    IF beh = "buildThrows" THEN BuildFailed(o1)
    ELSE
      LET o2 == [o1 EXCEPT !.el.built_ = TRUE, !.el.notbuilt = FALSE,
                           !.tr = Append(@, Hook(e, "preconnect(false)"))]
          o3 == IF o2.el.built_ /\ o2.el.isInViewport_
                THEN updateInViewport_(o2, e, TRUE) ELSE o2
          d == ScheduleDrain(o3.el, e)
      IN [o3 EXCEPT !.el = d.x, !.tm = @ \o d.tm,
                    !.tr = Append(@, Hook(e, "createPlaceholderCallback"))]

\* ElementProto.isLoadingEnabled_, :1071-1090 (the value; the caching of
\* loadingDisabled_ is CacheLoadingDisabled).
isInternalOrServiceNode(x) == FALSE

LoadingEnabledIgnoringLayoutCount(x) ==
  ~( x.attrs.noloading \/ ~isLoadingAllowed(x.tagName)
     \/ x.layoutWidth_ < MIN_WIDTH_FOR_LOADING_
     \/ isInternalOrServiceNode(x) \/ ~isLayoutSizeDefined(x.layout_) )

isLoadingEnabled_(x) ==
  ~( (IF x.loadingDisabled_ = Undefined THEN x.attrs.noloading
      ELSE x.loadingDisabled_ = "true")
     \/ ~isLoadingAllowed(x.tagName)
     \/ x.layoutWidth_ < MIN_WIDTH_FOR_LOADING_
     \/ x.layoutCount_ > 0
     \/ isInternalOrServiceNode(x) \/ ~isLayoutSizeDefined(x.layout_) )

CacheLoadingDisabled(x) ==
  IF x.loadingDisabled_ = Undefined
  THEN [x EXCEPT !.loadingDisabled_ = Bool(x.attrs.noloading)]
  ELSE x

\* ElementProto.prepareLoading_, :1098-1112.
prepareLoading_(x) ==
  IF x.loadingContainer_ = Null THEN [x EXCEPT !.loadingContainer_ = "hidden"] ELSE x

\* ElementProto.toggleLoading_, :1120-1133: the synchronous part.
toggleLoading_(o, e, state, cleanup) ==
  IF ~assertNotTemplate_(o.el) THEN Threw(o, "assert: template")
  ELSE
    LET x1 == [o.el EXCEPT !.loadingState_ = Bool(state)]
    IN
    IF ~state /\ x1.loadingContainer_ = Null THEN [o EXCEPT !.el = x1]
    ELSE IF state /\ ~isLoadingEnabled_(x1)
      THEN [o EXCEPT !.el = [CacheLoadingDisabled(x1) EXCEPT !.loadingState_ = "false"]]
    ELSE [o EXCEPT !.el = IF state THEN CacheLoadingDisabled(x1) ELSE x1,
                   !.vs = Append(@, [fn |-> "toggleLoading", e |-> e,
                                     cleanup |-> cleanup])]

\* The mutation scheduled by toggleLoading_, :1135-1158.  The result is the
\* element and whether a removal of the container was deferred.
toggleLoadingMutate(x, cleanup) ==
  LET state0 == x.loadingState_ = "true"
      state == IF state0 /\ ~isLoadingEnabled_(x) THEN FALSE ELSE state0
      x1 == IF state0 THEN CacheLoadingDisabled(x) ELSE x
      x2 == IF state THEN prepareLoading_(x1) ELSE x1
  IN
  IF x2.loadingContainer_ = Null THEN [x |-> x2, removal |-> FALSE]
  ELSE
    LET x3 == [x2 EXCEPT !.loadingContainer_ = IF state THEN "visible" ELSE "hidden"]
    IN IF ~state /\ cleanup
       THEN [x |-> [x3 EXCEPT !.loadingContainer_ = Null], removal |-> TRUE]
       ELSE [x |-> x3, removal |-> FALSE]

FirstAttachEventAttached(x) == "amp:attached"

\* The event dispatched at the end of firstAttachedCallback_, :686-692.
FirstAttachEvent(x) == IF ~isUpgraded(x) THEN "amp:stubbed" ELSE "amp:attached"

\* ElementProto.firstAttachedCallback_, :669-693.  beh is "ok" or
\* "attachedThrows".
firstAttachedCallback_(x, e, beh) ==
  LET r == applyLayout_(x.attrs, x.tagName)
      o0 == [Outcome(x) EXCEPT !.tr = <<Hook(e, "firstAttachedCallback_")>>]
  IN
  IF r.err # "" THEN [o0 EXCEPT !.rep = 1, !.err = r.err]
  ELSE
    LET x1 == [x EXCEPT !.layout_ = r.layout, !.ui = r.ui]
    IN
    IF x1.layout_ # NODISPLAY /\ ~isLayoutSupported(x1.implementation_.cls, x1.layout_)
    THEN [o0 EXCEPT !.el = x1, !.rep = 1, !.err = "Layout not supported for"]
    ELSE
      LET x2 == [x1 EXCEPT !.implementation_.layout_ = x1.layout_]
          o2 == [o0 EXCEPT !.el = x2,
                           !.tr = Append(@, Hook(e, "firstAttachedCallback"))]
      IN
      IF beh = "attachedThrows"
      THEN [o2 EXCEPT !.rep = 1, !.err = "hook: firstAttachedCallback"]
      ELSE [o2 EXCEPT !.ev = <<FirstAttachEvent(x2)>>]

FirstAttachUncaught(f) == f

\* The try and catch around firstAttachedCallback_ in attachedCallback,
\* :644-648: the error is reported and not thrown again.
CatchFirstAttach(f) ==
  IF f.err # "" THEN [f EXCEPT !.rep = @ + 1, !.err = ""] ELSE f

FirstAttachAlways(x) == TRUE

\* The guard of the first-attach flow in attachedCallback, :642.
FirstAttachPending(x) == ~x.everAttached

\* ElementProto.attachedCallback, :635-651.  inTemplate is the answer of
\* dom.closestByTag(this, 'template').
attachedCallback(x, e, templateSupported, inTemplate, beh) ==
  LET x1 == IF ~templateSupported
            THEN [x EXCEPT !.isInTemplate_ = Bool(inTemplate)] ELSE x
  IN
  IF x1.isInTemplate_ = "true" THEN Outcome(x1)
  ELSE
    LET o1 == IF FirstAttachPending(x1)
              THEN CatchFirstAttach(
                     firstAttachedCallback_([x1 EXCEPT !.everAttached = TRUE], e, beh))
              ELSE Outcome(x1)
    IN [o1 EXCEPT !.el.inResources = TRUE,
                  !.tr = Append(@, Hook(e, "resources.add"))]

\* ElementProto.detachedCallback, :657-663.
detachedCallback(x, e) ==
  IF x.isInTemplate_ = "true" THEN Outcome(x)
  ELSE [Outcome([x EXCEPT !.inResources = FALSE])
          EXCEPT !.tr = <<Hook(e, "resources.remove"), Hook(e, "detachedCallback")>>]

\* ElementProto.layoutCallback, :784-791: the synchronous part.
layoutCallback(x, e) ==
  IF ~assertNotTemplate_(x) THEN Threw(Outcome(x), "assert: template")
  ELSE IF ~(isUpgraded(x) /\ isBuilt(x))
    THEN Threw(Outcome(x), "assert: Must be upgraded and built")
  ELSE [Outcome(x) EXCEPT !.ev = <<"amp:load:start">>,
                          !.tr = <<Hook(e, "layoutCallback"),
                                   Hook(e, "preconnect(true)")>>,
                          !.ret = "promise"]

FulfilledStillLoading(x, e) ==
  toggleLoading_(Outcome([x EXCEPT !.layoutCount_ = @ + 1]), e, FALSE, TRUE)

\* The fulfilment handler of layoutCallback, :792-798.
layoutFulfilled(x, e) ==
  LET x1 == [x EXCEPT !.readyState = "complete", !.layoutCount_ = @ + 1]
      o1 == toggleLoading_(Outcome(x1), e, FALSE, TRUE)
  IN IF o1.err # "" THEN o1
     ELSE IF o1.el.layoutCount_ = 1
       THEN [o1 EXCEPT !.tr = Append(@, Hook(e, "firstLayoutCompleted"))]
     ELSE o1

RejectedAsFulfilled(x, e) == Threw(layoutFulfilled(x, e), "reason")

\* The rejection handler of layoutCallback, :799-802.
layoutRejected(x, e) ==
  LET o1 == toggleLoading_(Outcome(x), e, FALSE, TRUE)
  IN IF o1.err # "" THEN o1 ELSE Threw(o1, "reason")

\* ElementProto.viewportCallback, :814-833.
viewportCallback(x, e, inViewport) ==
  IF ~assertNotTemplate_(x) THEN Threw(Outcome(x), "assert: template")
  ELSE
    LET o0 == Outcome([x EXCEPT !.isInViewport_ = inViewport])
        o1 == IF o0.el.layoutCount_ = 0
              THEN IF ~inViewport THEN toggleLoading_(o0, e, FALSE, FALSE)
                   ELSE [o0 EXCEPT !.tm = <<[fn |-> "viewport", e |-> e, ms |-> 100]>>]
              ELSE o0
    IN IF o1.err # "" THEN o1
       ELSE IF isUpgraded(o1.el) /\ isBuilt(o1.el)
         THEN updateInViewport_(o1, e, inViewport)
       ELSE o1

ViewportTimerNever(x, e) == Outcome(x)

ViewportTimerUnchecked(x, e) == toggleLoading_(Outcome(x), e, TRUE, FALSE)

\* The timer callback of viewportCallback, :824-828.
viewportTimer(x, e) ==
  IF x.layoutCount_ = 0 /\ x.isInViewport_
  THEN toggleLoading_(Outcome(x), e, TRUE, FALSE)
  ELSE Outcome(x)

\* ElementProto.updateLayoutBox, :535-556.  box is [width, top].
updateLayoutBox(x, e, box) ==
  LET x1 == [x EXCEPT !.layoutWidth_ = box.width]
      x2 == IF isUpgraded(x1)
            THEN [x1 EXCEPT !.implementation_.layoutWidth_ = box.width] ELSE x1
      o2 == [Outcome(CacheLoadingDisabled(x2))
               EXCEPT !.tr = <<Hook(e, "onLayoutMeasure")>>]
  IN
  IF isLoadingEnabled_(x2)
  THEN IF x2.isInViewport_ THEN toggleLoading_(o2, e, TRUE, FALSE)
       ELSE IF box.top < PREPARE_LOADING_THRESHOLD_ /\ box.top >= 0
         THEN [o2 EXCEPT !.vs = <<[fn |-> "prepareLoading", e |-> e,
                                   cleanup |-> FALSE]>>]
       ELSE o2
  ELSE o2

\* ElementProto.pauseCallback, :851-857, and resumeCallback, :866-872.
pauseOrResumeCallback(x, e, hook) ==
  IF ~assertNotTemplate_(x) THEN Threw(Outcome(x), "assert: template")
  ELSE IF ~isBuilt(x) \/ ~isUpgraded(x) THEN Outcome(x)
  ELSE [Outcome(x) EXCEPT !.tr = <<Hook(e, hook)>>]

KeepLayoutCount(n, isReLayoutNeeded) == n

ResetAlways(n, isReLayoutNeeded) == 0

\* The reset of unlayoutCallback, :889-891.
ResetLayoutCount(n, isReLayoutNeeded) == IF isReLayoutNeeded THEN 0 ELSE n

\* ElementProto.unlayoutCallback, :883-893.  answer is what the
\* implementation's unlayoutCallback returns.
unlayoutCallback(x, e, answer) ==
  IF ~assertNotTemplate_(x) THEN Threw(Outcome(x), "assert: template")
  ELSE IF ~isBuilt(x) \/ ~isUpgraded(x) THEN [Outcome(x) EXCEPT !.ret = "false"]
  ELSE [Outcome([x EXCEPT !.layoutCount_ = ResetLayoutCount(@, answer)])
          EXCEPT !.tr = <<Hook(e, "unlayoutCallback")>>, !.ret = Bool(answer)]

---------------------------------------------------------------------------
(* The action queue. *)

\* ElementProto.executionAction_, :950-957.  throws: executeAction throws.
executionAction_(o, e, invocation, isDeferred, throws) ==
  [o EXCEPT !.ex = Append(@, [e |-> e, inv |-> invocation,
                              deferred |-> isDeferred, threw |-> throws]),
            !.tr = IF throws
                   THEN @ \o <<Hook(e, "executeAction"), Hook(e, "rethrowAsync")>>
                   ELSE Append(@, Hook(e, "executeAction"))]

RECURSIVE ExecuteUntilThrow(_, _, _, _)
ExecuteUntilThrow(o, e, queue, thr) ==
  IF queue = <<>> THEN o
  ELSE IF Head(queue) \in thr
    THEN executionAction_(o, e, Head(queue), TRUE, TRUE)
  ELSE ExecuteUntilThrow(executionAction_(o, e, Head(queue), TRUE, FALSE),
                         e, Tail(queue), thr)

\* The forEach of dequeueActions_, :938-940.  thr is the set of invocations
\* whose execution throws.
RECURSIVE ExecuteQueue(_, _, _, _)
ExecuteQueue(o, e, queue, thr) ==
  IF queue = <<>> THEN o
  ELSE ExecuteQueue(executionAction_(o, e, Head(queue), TRUE, Head(queue) \in thr),
                    e, Tail(queue), thr)

\* ElementProto.dequeueActions_, :929-941.
dequeueActions_(x, e, thr) ==
  IF ~x.actionQueue_.defined THEN Outcome(x)
  ELSE ExecuteQueue(Outcome([x EXCEPT !.actionQueue_ = [defined |-> FALSE,
                                                         items |-> <<>>]]),
                    e, x.actionQueue_.items, thr)

\* ElementProto.enqueAction, :915-922.
enqueAction(x, e, invocation, throws) ==
  IF ~assertNotTemplate_(x) THEN Threw(Outcome(x), "assert: template")
  ELSE IF ~isBuilt(x)
    THEN IF ~x.actionQueue_.defined THEN Threw(Outcome(x), "assert: actionQueue_")
         ELSE Outcome([x EXCEPT !.actionQueue_.items = Append(@, invocation)])
  ELSE executionAction_(Outcome(x), e, invocation, FALSE, throws)

---------------------------------------------------------------------------
(* History. *)

Calls(tr, e, h) == Cardinality({k \in 1..Len(tr) : tr[k] = Hook(e, h)})

IsLifecycleEvent(v) == v \in {"amp:stubbed", "amp:attached"}

\* The element of outcome o with its history brought up to date.
WithHistory(o, e) ==
  [o.el EXCEPT
     !.hist.events = @ \o SelectSeq(o.ev, IsLifecycleEvent),
     !.hist.buildCallbacks =
        @ + (IF Calls(o.tr, e, "buildCallback") > 0 /\ o.err = "" THEN 1 ELSE 0),
     !.hist.buildFailed = @ \/ o.err = "hook: buildCallback",
     !.hist.firstAttachRuns = @ + Calls(o.tr, e, "firstAttachedCallback_"),
     !.hist.firstAttachHooks =
        @ + (IF isUpgraded(o.el) THEN Calls(o.tr, e, "firstAttachedCallback") ELSE 0),
     !.hist.firstLayouts = @ + Calls(o.tr, e, "firstLayoutCompleted")]

---------------------------------------------------------------------------
(* The registry. *)

\* registerElement, :1235-1241.
registerElement(known, name, implementationClass) ==
  [known EXCEPT ![name] = implementationClass]

RECURSIVE UpgradeStubsAbort(_, _, _, _, _, _)
UpgradeStubsAbort(k, stubs, name, toClass, beh, acc) ==
  IF k > Len(stubs) THEN acc
  ELSE
    LET e == stubs[k]
    IN IF acc.els[e].tagName = name
       THEN LET o == upgrade(acc.els[e], e, toClass, beh[e])
                next == [els |-> [acc.els EXCEPT ![e] = WithHistory(o, e)],
                         tr |-> acc.tr \o <<Hook(e, "upgrade")>> \o o.tr,
                         ev |-> acc.ev \o o.ev,
                         rep |-> acc.rep]
            IN IF o.err # "" THEN next
               ELSE UpgradeStubsAbort(k + 1, stubs, name, toClass, beh, next)
       ELSE UpgradeStubsAbort(k + 1, stubs, name, toClass, beh, acc)

\* The loop of upgradeOrRegisterElement, :86-103, from position k of
\* stubbedElements on.  acc is [els, tr, ev, rep]; beh gives, per element,
\* what the new implementation's hooks do.
RECURSIVE UpgradeStubs(_, _, _, _, _, _)
UpgradeStubs(k, stubs, name, toClass, beh, acc) ==
  IF k > Len(stubs) THEN acc
  ELSE
    LET e == stubs[k]
    IN IF acc.els[e].tagName = name
       THEN LET o == upgrade(acc.els[e], e, toClass, beh[e])
            IN UpgradeStubs(k + 1, stubs, name, toClass, beh,
                 [els |-> [acc.els EXCEPT ![e] = WithHistory(o, e)],
                  tr |-> acc.tr \o <<Hook(e, "upgrade")>> \o o.tr,
                  ev |-> acc.ev \o o.ev,
                  rep |-> acc.rep + (IF o.err # "" THEN 1 ELSE 0)])
       ELSE UpgradeStubs(k + 1, stubs, name, toClass, beh, acc)

RECURSIVE StubListAlways(_, _)
StubListAlways(list, r) ==
  IF list = <<>> THEN r
  ELSE StubListAlways(Tail(list),
                      [known |-> registerElement(r.known, Head(list), ElementStub),
                       names |-> r.names \cup {Head(list)}])

\* The loop of stubElements, :123-131.  r is [known, names].
RECURSIVE StubList(_, _)
StubList(list, r) ==
  IF list = <<>> THEN r
  ELSE LET name == Head(list)
           names == r.names \cup {name}
       IN IF r.known[name] # "none"
          THEN StubList(Tail(list), [r EXCEPT !.names = names])
          ELSE StubList(Tail(list),
                        [known |-> registerElement(r.known, name, ElementStub),
                         names |-> names])

\* The first-call branch of stubElements, :112-122.
StubAdAndEmbed(known, ext) ==
  IF ~ext.defined
  THEN IF known["amp-ad"] = "none" /\ known["amp-embed"] = "none"
       THEN [known |-> registerElement(registerElement(known, "amp-ad", ElementStub),
                                       "amp-embed", ElementStub),
             names |-> {"amp-ad", "amp-embed"}]
       ELSE [known |-> known, names |-> {}]
  ELSE [known |-> known, names |-> ext.names]

---------------------------------------------------------------------------
(* The page: the attributes its elements may carry. *)

SizesValue == "(min-width:300px) 100vw"

Attrs(layout, width, height, sizes, heights, noloading) ==
  [layout |-> layout, width |-> width, height |-> height,
   sizes |-> sizes, heights |-> heights, noloading |-> noloading]

\* Every combination of the layout attributes.
LayoutAttrs ==
  [layout : {Null, "bogus"} \cup Layout,
   width : {Null, "auto", "300", "300px", "10em", "bad"},
   height : {Null, "200", "200px", "bad"},
   sizes : {Null, SizesValue},
   heights : {Null, SizesValue},
   noloading : {FALSE}]

LayoutBoxes == [width : {50, 200}, top : {-1, 0, 1000}]

Behaviours == {"ok", "createdThrows", "attachedThrows"}

---------------------------------------------------------------------------
(* State. *)

Init ==
  /\ TEMPLATE_TAG_SUPPORTED \in BOOLEAN
  /\ knownElements = [n \in Names |-> "none"]
  /\ ampExtendedElements = [defined |-> FALSE, names |-> {}]
  /\ stubbedElements = <<>>
  /\ el = <<>>
  /\ timers = <<>>
  /\ vsyncQueue = <<>>
  /\ deferred = <<>>
  /\ promises = <<>>
  /\ executed = <<>>
  /\ submitted = 0

Elements == 1..Len(el)

PendingViewportTimers(tms) ==
  Cardinality({k \in 1..Len(tms) : tms[k].fn = "viewport"})

\* Installs the outcome o of a call on element e.
Install(e, o) ==
  /\ el' = [el EXCEPT ![e] = WithHistory(o, e)]
  /\ timers' = timers \o o.tm
  /\ vsyncQueue' = vsyncQueue \o o.vs
  /\ executed' = executed \o o.ex
  /\ PendingViewportTimers(timers') <= MaxPending
  /\ Len(vsyncQueue') <= MaxQueue

---------------------------------------------------------------------------
(* Actions: the registry. *)

\* stubElements, :111-136; list is what querySelectorAll('[custom-element]')
\* finds.
StubElements(list) ==
  LET first == StubAdAndEmbed(knownElements, ampExtendedElements)
      r == StubList(list, first)
  IN /\ knownElements' = r.known
     /\ ampExtendedElements' = [defined |-> TRUE, names |-> r.names]
     /\ UNCHANGED <<TEMPLATE_TAG_SUPPORTED, stubbedElements, el, timers,
                    vsyncQueue, deferred, promises, executed, submitted>>

UpgradeRegardless(known, stubs, els, name, toClass, beh) ==
  LET r == UpgradeStubs(1, stubs, name, toClass, beh,
                        [els |-> els, tr |-> <<>>, ev |-> <<>>, rep |-> 0])
  IN [known |-> [known EXCEPT ![name] = toClass], els |-> r.els, err |-> "",
      tr |-> r.tr, ev |-> r.ev, rep |-> r.rep]

\* upgradeOrRegisterElement, :76-104.  The result is [known, els, err].
upgradeOrRegisterElement(known, stubs, els, name, toClass, beh) ==
  IF known[name] = "none"
  THEN [known |-> registerElement(known, name, toClass), els |-> els, err |-> "",
        tr |-> <<>>, ev |-> <<>>, rep |-> 0]
  ELSE IF known[name] # ElementStub
  THEN [known |-> known, els |-> els, err |-> "is already registered",
        tr |-> <<>>, ev |-> <<>>, rep |-> 0]
  ELSE LET r == UpgradeStubs(1, stubs, name, toClass, beh,
                             [els |-> els, tr |-> <<>>, ev |-> <<>>, rep |-> 0])
       IN [known |-> [known EXCEPT ![name] = toClass], els |-> r.els, err |-> "",
           tr |-> r.tr, ev |-> r.ev, rep |-> r.rep]

UpgradeOrRegisterElement(name, toClass, beh) ==
  /\ LET r == upgradeOrRegisterElement(knownElements, stubbedElements, el,
                                       name, toClass, beh)
     IN /\ knownElements' = r.known
        /\ el' = r.els
  /\ UNCHANGED <<TEMPLATE_TAG_SUPPORTED, ampExtendedElements, stubbedElements,
                 timers, vsyncQueue, deferred, promises, executed, submitted>>

\* The browser creates an element of a registered name: createdCallback,
\* :305-384, with the ElementStub constructor's push to stubbedElements.
CreateElement(name, a) ==
  /\ knownElements[name] # "none"
  /\ el' = Append(el, createdCallback(name, a, knownElements[name]))
  /\ stubbedElements' = IF knownElements[name] = ElementStub
                        THEN Append(stubbedElements, Len(el) + 1)
                        ELSE stubbedElements
  /\ UNCHANGED <<TEMPLATE_TAG_SUPPORTED, knownElements, ampExtendedElements,
                 timers, vsyncQueue, deferred, promises, executed, submitted>>

---------------------------------------------------------------------------
(* Actions: the methods of an element. *)

rest == <<TEMPLATE_TAG_SUPPORTED, knownElements, ampExtendedElements,
          stubbedElements, deferred, promises, submitted>>

AttachedCallback(e, inTemplate, beh) ==
  /\ ~el[e].inDocument
  /\ Install(e, LET o == attachedCallback(el[e], e, TEMPLATE_TAG_SUPPORTED,
                                          inTemplate, beh)
                IN [o EXCEPT !.el.inDocument = TRUE])
  /\ UNCHANGED rest

DetachedCallback(e) ==
  /\ el[e].inDocument
  /\ Install(e, LET o == detachedCallback(el[e], e)
                IN [o EXCEPT !.el.inDocument = FALSE])
  /\ UNCHANGED rest

Build(e, beh) ==
  /\ Install(e, build(el[e], e, beh))
  /\ UNCHANGED rest

LayoutCallback(e) ==
  /\ Len(promises) < MaxPending
  /\ LET o == layoutCallback(el[e], e)
     IN /\ Install(e, o)
        /\ promises' = IF o.err = "" THEN Append(promises, e) ELSE promises
  /\ UNCHANGED <<TEMPLATE_TAG_SUPPORTED, knownElements, ampExtendedElements,
                 stubbedElements, deferred, submitted>>

RemoveAt(s, k) == SubSeq(s, 1, k - 1) \o SubSeq(s, k + 1, Len(s))

LayoutFulfilled(k) ==
  /\ el[promises[k]].hist.fulfilled < MaxLayouts
  /\ Install(promises[k],
             LET o == layoutFulfilled(el[promises[k]], promises[k])
             IN [o EXCEPT !.el.hist.fulfilled = @ + 1])
  /\ promises' = RemoveAt(promises, k)
  /\ UNCHANGED <<TEMPLATE_TAG_SUPPORTED, knownElements, ampExtendedElements,
                 stubbedElements, deferred, submitted>>

LayoutRejected(k) ==
  /\ Install(promises[k], layoutRejected(el[promises[k]], promises[k]))
  /\ promises' = RemoveAt(promises, k)
  /\ UNCHANGED <<TEMPLATE_TAG_SUPPORTED, knownElements, ampExtendedElements,
                 stubbedElements, deferred, submitted>>

ViewportCallback(e, inViewport) ==
  /\ Install(e, viewportCallback(el[e], e, inViewport))
  /\ UNCHANGED rest

UpdateLayoutBox(e, box) ==
  /\ Install(e, updateLayoutBox(el[e], e, box))
  /\ UNCHANGED rest

PauseCallback(e) ==
  /\ Install(e, pauseOrResumeCallback(el[e], e, "pauseCallback"))
  /\ UNCHANGED rest

ResumeCallback(e) ==
  /\ Install(e, pauseOrResumeCallback(el[e], e, "resumeCallback"))
  /\ UNCHANGED rest

UnlayoutCallback(e, answer) ==
  /\ Install(e, unlayoutCallback(el[e], e, answer))
  /\ UNCHANGED rest

\* An invocation that enqueAction accepts is numbered in submission order.
EnqueAction(e, throws) ==
  /\ submitted < MaxActions
  /\ LET o == enqueAction(el[e], e, submitted + 1, throws)
     IN /\ Install(e, o)
        /\ submitted' = IF o.err = "" THEN submitted + 1 ELSE submitted
  /\ UNCHANGED <<TEMPLATE_TAG_SUPPORTED, knownElements, ampExtendedElements,
                 stubbedElements, deferred, promises>>

---------------------------------------------------------------------------
(* Actions: timers, vsync and deferred mutations. *)

\* A timer may fire once every timer scheduled before it with a delay that
\* is no longer has fired.
MayFire(k) == \A j \in 1..(k - 1) : timers[j].ms > timers[k].ms

TimerInstall(k, o) ==
  /\ el' = [el EXCEPT ![timers[k].e] = WithHistory(o, timers[k].e)]
  /\ timers' = RemoveAt(timers, k)
  /\ vsyncQueue' = vsyncQueue \o o.vs
  /\ Len(vsyncQueue') <= MaxQueue
  /\ executed' = executed \o o.ex
  /\ UNCHANGED rest

\* The timer of build, :480, fires.  thr: the invocations whose execution
\* throws.
DequeueTimer(k, thr) ==
  /\ MayFire(k)
  /\ timers[k].fn = "dequeueActions_"
  /\ TimerInstall(k, dequeueActions_(el[timers[k].e], timers[k].e, thr))

\* The timer of viewportCallback, :824, fires.
ViewportTimer(k) ==
  /\ MayFire(k)
  /\ timers[k].fn = "viewport"
  /\ TimerInstall(k, viewportTimer(el[timers[k].e], timers[k].e))

\* vsync runs the oldest scheduled mutation.
VsyncMutate ==
  /\ vsyncQueue # <<>>
  /\ LET t == Head(vsyncQueue)
         r == IF t.fn = "toggleLoading" THEN toggleLoadingMutate(el[t.e], t.cleanup)
              ELSE [x |-> prepareLoading_(el[t.e]), removal |-> FALSE]
     IN /\ el' = [el EXCEPT ![t.e] = r.x]
        /\ deferred' = IF r.removal THEN Append(deferred, t.e) ELSE deferred
        /\ Len(deferred') <= MaxPending
  /\ vsyncQueue' = Tail(vsyncQueue)
  /\ UNCHANGED <<TEMPLATE_TAG_SUPPORTED, knownElements, ampExtendedElements,
                 stubbedElements, timers, promises, executed, submitted>>

\* resources runs the oldest deferred mutation: dom.removeElement.
DeferredMutate ==
  /\ deferred # <<>>
  /\ deferred' = Tail(deferred)
  /\ UNCHANGED <<TEMPLATE_TAG_SUPPORTED, knownElements, ampExtendedElements,
                 stubbedElements, el, timers, vsyncQueue, promises, executed,
                 submitted>>

---------------------------------------------------------------------------
(* Specifications. *)

\* What the hooks of the new implementation may do in the upgrades that
\* registering name would run: one behaviour per element it would upgrade.
UpgradeBehaviours(name, kinds) ==
  { beh \in [Elements -> kinds] :
      \A e \in Elements :
        \/ beh[e] = "ok"
        \/ /\ knownElements[name] = ElementStub
           /\ el[e].tagName = name
           /\ \E k \in 1..Len(stubbedElements) : stubbedElements[k] = e }

\* The registry of a page with the one extended element amp-embed.
PageRegistry ==
  \/ StubElements(<<"amp-embed">>)
  \/ \E toClass \in Classes, beh \in UpgradeBehaviours("amp-embed", Behaviours) :
       UpgradeOrRegisterElement("amp-embed", toClass, beh)

Attach(e) ==
  \/ \E inTemplate \in BOOLEAN, beh \in {"ok", "attachedThrows"} :
       AttachedCallback(e, inTemplate, beh)
  \/ DetachedCallback(e)

\* The attributes of an element that never shows the loading indicator.
QuietAttrs ==
  { Attrs(Null, "300", "200", Null, Null, TRUE),
    Attrs(Null, Null, Null, Null, Null, FALSE),
    Attrs("bogus", Null, Null, Null, Null, FALSE) }

\* One element through its lifecycle.
Next ==
  \/ PageRegistry
  \/ el = <<>> /\ \E a \in QuietAttrs : CreateElement("amp-embed", a)
  \/ \E e \in Elements :
       \/ Attach(e)
       \/ \E beh \in {"ok", "buildThrows"} : Build(e, beh)
       \/ LayoutCallback(e)
       \/ \E inViewport \in BOOLEAN : ViewportCallback(e, inViewport)
       \/ PauseCallback(e)
       \/ ResumeCallback(e)
       \/ \E answer \in BOOLEAN : UnlayoutCallback(e, answer)
  \/ \E k \in 1..Len(promises) : LayoutFulfilled(k) \/ LayoutRejected(k)
  \/ \E k \in 1..Len(timers) : ViewportTimer(k)

Spec == Init /\ [][Next]_vars

\* One element that may show the loading indicator.
LoadingAttrs ==
  { Attrs(Null, "300", "200", Null, Null, FALSE),
    Attrs(Null, "300", "200", Null, Null, TRUE) }

NextLoading ==
  \/ StubElements(<<"amp-embed">>)
  \/ \E beh \in [Elements -> {"ok"}] :
       UpgradeOrRegisterElement("amp-embed", "ImplFull", beh)
  \/ el = <<>> /\ \E a \in LoadingAttrs : CreateElement("amp-embed", a)
  \/ \E e \in Elements :
       \/ \E inTemplate \in BOOLEAN : AttachedCallback(e, inTemplate, "ok")
       \/ Build(e, "ok")
       \/ LayoutCallback(e)
       \/ \E inViewport \in BOOLEAN : ViewportCallback(e, inViewport)
       \/ \E box \in LayoutBoxes : UpdateLayoutBox(e, box)
       \/ \E answer \in BOOLEAN : UnlayoutCallback(e, answer)
  \/ \E k \in 1..Len(promises) : LayoutFulfilled(k) \/ LayoutRejected(k)
  \/ \E k \in 1..Len(timers) : ViewportTimer(k)
  \/ VsyncMutate
  \/ DeferredMutate

SpecLoading == Init /\ [][NextLoading]_vars

\* One element and the invocations submitted to it.
NextActions ==
  \/ PageRegistry
  \/ el = <<>> /\ \E a \in QuietAttrs : CreateElement("amp-embed", a)
  \/ \E e \in Elements :
       \/ Attach(e)
       \/ \E beh \in {"ok", "buildThrows"} : Build(e, beh)
       \/ \E throws \in BOOLEAN : EnqueAction(e, throws)
  \/ \E k \in 1..Len(timers), thr \in SUBSET (1..MaxActions) : DequeueTimer(k, thr)

SpecActions == Init /\ [][NextActions]_vars

\* Several elements of several names, and the registry.
RegistryNames == {"amp-ad", "amp-embed"}

NextRegistry ==
  \/ \E list \in {<<>>, <<"amp-embed">>} : StubElements(list)
  \/ \E name \in RegistryNames, toClass \in Classes :
       \E beh \in UpgradeBehaviours(name, Behaviours) :
         UpgradeOrRegisterElement(name, toClass, beh)
  \/ /\ Len(el) < MaxElements
     /\ \E name \in RegistryNames :
          CreateElement(name, Attrs(Null, "300", "200", Null, Null, TRUE))
  \/ \E e \in Elements, inTemplate \in BOOLEAN, beh \in {"ok", "attachedThrows"} :
       AttachedCallback(e, inTemplate, beh)

SpecRegistry == Init /\ [][NextRegistry]_vars

\* Layout resolution over every combination of the layout attributes.
LayoutNames == {"amp-embed", "amp-pixel"}

NextLayout ==
  \/ StubElements(<<"amp-pixel">>)
  \/ \E name \in LayoutNames, toClass \in Classes, beh \in [Elements -> {"ok"}] :
       UpgradeOrRegisterElement(name, toClass, beh)
  \/ el = <<>> /\ \E name \in LayoutNames, a \in LayoutAttrs : CreateElement(name, a)
  \/ \E e \in Elements : AttachedCallback(e, FALSE, "ok")

SpecLayout == Init /\ [][NextLayout]_vars

\* The timers of outcome o, each with the number of layouts of the element
\* fulfilled when it was scheduled.
StampTimers(o, at) ==
  [o EXCEPT !.tm = [k \in 1..Len(o.tm) |->
                      [fn |-> o.tm[k].fn, e |-> o.tm[k].e, ms |-> o.tm[k].ms,
                       at |-> at]]]

\* viewportCallback, :814-833, with its timer stamped.
ViewportCallbackAt(e, inViewport) ==
  /\ Install(e, StampTimers(viewportCallback(el[e], e, inViewport),
                            el[e].hist.fulfilled))
  /\ UNCHANGED rest

\* One element with a loading indicator, its viewport timers and its
\* layouts.
NextDebounce ==
  \/ \E beh \in [Elements -> {"ok"}] :
       UpgradeOrRegisterElement("amp-embed", "ImplFull", beh)
  \/ el = <<>> /\ CreateElement("amp-embed", Attrs(Null, "300", "200", Null, Null, FALSE))
  \/ \E e \in Elements :
       \/ AttachedCallback(e, FALSE, "ok")
       \/ Build(e, "ok")
       \/ LayoutCallback(e)
       \/ \E inViewport \in BOOLEAN : ViewportCallbackAt(e, inViewport)
       \/ \E box \in LayoutBoxes : UpdateLayoutBox(e, box)
       \/ \E answer \in BOOLEAN : UnlayoutCallback(e, answer)
  \/ \E k \in 1..Len(promises) : LayoutFulfilled(k)
  \/ \E k \in 1..Len(timers) : ViewportTimer(k)
  \/ VsyncMutate
  \/ DeferredMutate

SpecDebounce == Init /\ [][NextDebounce]_vars

---------------------------------------------------------------------------
(* Properties. *)

Has(tr, e, h) == Calls(tr, e, h) > 0

\* C1: build() is idempotent.  The build hook of an element returns at most
\* once; built_ is true exactly when it has returned; and in every state in
\* which the element is built, a call of build() invokes no hook, schedules
\* nothing and leaves the element as it is, whatever the hook would do.
C1_BuildIdempotent ==
  \A e \in Elements :
    /\ el[e].hist.buildCallbacks <= 1
    /\ el[e].built_ <=> el[e].hist.buildCallbacks = 1
    /\ el[e].built_ =>
         \A beh \in {"ok", "buildThrows"} :
           LET o == build(el[e], e, beh)
           IN o.el = el[e] /\ o.tr = <<>> /\ o.tm = <<>> /\ o.rep = 0

\* A built element whose build hook had thrown on an earlier call.
C1_Witness ==
  \E e \in Elements :
    el[e].built_ /\ el[e].hist.buildCallbacks = 1 /\ el[e].hist.buildFailed

\* What upgrade() of the stubbed element e to class cls does when the new
\* implementation's hooks behave as beh.
UpgradeOf(e, cls, beh) == upgrade(el[e], e, cls, beh)

NoReplay(o, e) ==
  /\ ~Has(o.tr, e, "firstAttachedCallback")
  /\ o.ev = <<>>
  /\ ~Has(o.tr, e, "resources.upgraded")

ReachesReplay(x, cls, beh) ==
  /\ x.isInTemplate_ # "true"
  /\ beh # "createdThrows"
  /\ x.layout_ = NODISPLAY \/ isLayoutSupported(cls, x.layout_)

IsDeferred(x) == x.deferred

DeferredExecuted == SelectSeq(executed, IsDeferred)

Increasing(q) == \A i, j \in 1..Len(q) : i < j => q[i].inv < q[j].inv

\* C3: the invocations enqueued before build are executed in their queue
\* order, and a throwing invocation does not stop the ones after it.  The
\* queue holds invocations in submission order; the drain passes every one
\* of them to executeAction, in queue order and with the deferred flag,
\* whichever of them throw; the invocations executed with the deferred flag
\* are in submission order; and once the queue is gone no accepted
\* invocation is missing from the executed ones or executed twice.
C3_QueueOrderAndIsolation ==
  /\ Increasing(DeferredExecuted)
  /\ \A e \in Elements :
       /\ Increasing([i \in 1..Len(el[e].actionQueue_.items) |->
                        [inv |-> el[e].actionQueue_.items[i]]])
       /\ el[e].actionQueue_.defined =>
            \A thr \in SUBSET (1..MaxActions) :
              LET o == dequeueActions_(el[e], e, thr)
              IN /\ Len(o.ex) = Len(el[e].actionQueue_.items)
                 /\ \A i \in 1..Len(o.ex) :
                      /\ o.ex[i].inv = el[e].actionQueue_.items[i]
                      /\ o.ex[i].deferred
                      /\ o.ex[i].threw = (o.ex[i].inv \in thr)
       /\ ~el[e].actionQueue_.defined =>
            /\ \A n \in 1..submitted : \E i \in 1..Len(executed) : executed[i].inv = n
            /\ \A i, j \in 1..Len(executed) :
                 executed[i].inv = executed[j].inv => i = j

\* Three invocations queued before build were executed in order after it,
\* although the first of them threw.
C3_Witness ==
  /\ Len(executed) = 3
  /\ \A i \in 1..3 : executed[i].inv = i /\ executed[i].deferred
  /\ executed[1].threw

\* C4: the invocations of an element are executed strictly in the order in
\* which they were submitted.
C4_SubmissionOrder == Increasing(executed)

\* C5: the loading indicator becomes visible only in a state with
\* layoutCount_ = 0: no step, of any call, timer or vsync mutation, takes
\* the indicator from not visible to visible while layoutCount_ >= 1.
C5_ShownOnlyBeforeLayout ==
  [][\A e \in Elements :
       (el[e].loadingContainer_ # "visible" /\ el'[e].loadingContainer_ = "visible")
         => el[e].layoutCount_ = 0 /\ el'[e].layoutCount_ = 0]_vars

\* The indicator is visible again after a layout was fulfilled and then
\* reset by unlayoutCallback.
C5_Witness ==
  \E e \in Elements :
    /\ el[e].loadingContainer_ = "visible"
    /\ el[e].hist.fulfilled >= 1
    /\ el[e].layoutCount_ = 0

\* C6: in every state, unlayoutCallback on a built and upgraded element
\* (outside a template, where the call fails its assertion before it asks
\* the implementation) invokes the unlayout hook, returns the hook's
\* answer, sets layoutCount_ to 0 when the answer is true and changes
\* nothing when it is false.
C6_UnlayoutResets ==
  \A e \in Elements, answer \in BOOLEAN :
    LET o == unlayoutCallback(el[e], e, answer)
    IN IF isBuilt(el[e]) /\ isUpgraded(el[e]) /\ assertNotTemplate_(el[e])
       THEN /\ o.tr = <<Hook(e, "unlayoutCallback")>>
            /\ o.ret = Bool(answer)
            /\ o.err = ""
            /\ o.el = [el[e] EXCEPT !.layoutCount_ = IF answer THEN 0 ELSE @]
       ELSE ~Has(o.tr, e, "unlayoutCallback") /\ o.el = el[e]

\* An element whose layout was fulfilled and whose layoutCount_ is 0 again:
\* unlayoutCallback has reset it.
C6_Witness ==
  \E e \in Elements :
    /\ el[e].hist.fulfilled >= 1
    /\ el[e].layoutCount_ = 0
    /\ el[e].built_

\* The layout attributes as the claims speak of them.
Present(v) == Truthy(v) /\ v # "auto"

HasSizes(a) == Truthy(a.sizes) \/ Truthy(a.heights)

InferredWithSize(a) == IF HasSizes(a) THEN RESPONSIVE ELSE FIXED

\* The element e has run its first attach and its layout was resolved
\* without a validation error.
Resolved(e) ==
  /\ el[e].hist.firstAttachRuns >= 1
  /\ applyLayout_(el[e].attrs, el[e].tagName).err = ""

\* C7 as stated: with no layout attribute, width and height -> FIXED, or
\* RESPONSIVE with sizes or heights; only height (width absent or 'auto')
\* -> FIXED_HEIGHT; neither, on a tag without natural dimensions ->
\* CONTAINER; a layout attribute is the resolved layout.
C7_Original ==
  \A e \in Elements :
    Resolved(e) =>
      LET a == el[e].attrs
      IN /\ Truthy(a.layout) => el[e].layout_ = a.layout
         /\ (~Truthy(a.layout) /\ Present(a.width) /\ Truthy(a.height))
              => el[e].layout_ = InferredWithSize(a)
         /\ (~Truthy(a.layout) /\ ~Present(a.width) /\ Truthy(a.height))
              => el[e].layout_ = FIXED_HEIGHT
         /\ (~Truthy(a.layout) /\ ~Truthy(a.width) /\ ~Truthy(a.height)
               /\ ~hasNaturalDimensions(el[e].tagName))
              => el[e].layout_ = CONTAINER

\* C7: a layout attribute is the resolved layout.  Without one: width and
\* height -> FIXED, or RESPONSIVE with sizes or heights; height with width
\* 'auto', or with no width on a tag without natural dimensions ->
\* FIXED_HEIGHT; height with no width on a tag with natural dimensions ->
\* the natural width is substituted and the layout is FIXED, or RESPONSIVE
\* with sizes or heights; neither, on a tag without natural dimensions ->
\* CONTAINER.  The layout the element keeps is the one applyLayout_ returns.
C7_LayoutInference ==
  \A e \in Elements :
    Resolved(e) =>
      LET a == el[e].attrs
          natural == hasNaturalDimensions(el[e].tagName)
      IN /\ el[e].layout_ = applyLayout_(a, el[e].tagName).layout
         /\ el[e].ui.cls = el[e].layout_
         /\ Truthy(a.layout) => el[e].layout_ = a.layout
         /\ (~Truthy(a.layout) /\ Present(a.width) /\ Truthy(a.height))
              => el[e].layout_ = InferredWithSize(a)
         /\ (~Truthy(a.layout) /\ Truthy(a.height)
               /\ (a.width = "auto" \/ (~Truthy(a.width) /\ ~natural)))
              => el[e].layout_ = FIXED_HEIGHT
         /\ (~Truthy(a.layout) /\ Truthy(a.height) /\ ~Truthy(a.width) /\ natural)
              => el[e].layout_ = InferredWithSize(a)
         /\ (~Truthy(a.layout) /\ ~Truthy(a.width) /\ ~Truthy(a.height) /\ ~natural)
              => el[e].layout_ = CONTAINER

\* An attached element of a tag with natural dimensions that has only
\* height="200": its layout is FIXED.
C7_Witness ==
  \E e \in Elements :
    /\ Resolved(e)
    /\ hasNaturalDimensions(el[e].tagName)
    /\ el[e].attrs = Attrs(Null, Null, "200", Null, Null, FALSE)
    /\ el[e].layout_ = FIXED

\* The element's attributes parse and resolve, explicitly or by inference,
\* to a RESPONSIVE layout with a width and a height of different units.
ResponsiveWithMixedUnits(x) ==
  LET a == x.attrs
      inputLayout == IF Truthy(a.layout) THEN parseLayout(a.layout) ELSE Null
      inputWidth == IF Present(a.width) THEN parseLength(a.width) ELSE a.width
      inputHeight == IF Truthy(a.height) THEN parseLength(a.height) ELSE Null
      size == EffectiveSize(a, x.tagName, inputLayout, inputWidth, inputHeight)
  IN /\ Undefined \notin {inputLayout, inputWidth, inputHeight}
     /\ Present(size.width) /\ Truthy(size.height)
     /\ \/ inputLayout = RESPONSIVE
        \/ ~Truthy(inputLayout) /\ HasSizes(a)
     /\ getLengthUnits(size.width) # getLengthUnits(size.height)

UnitsMessage == "Length units should be the same for width and height"

\* C8: a RESPONSIVE layout whose width and height have different length
\* units is rejected with a validation error, and so is layout="responsive"
\* width="300px" height="200": applyLayout_ fails with the units message,
\* and after the first attach the element has no layout class, style or
\* sizer and keeps the layout NODISPLAY.
C8_MixedUnitsRejected ==
  \A e \in Elements :
    LET x == el[e]
        mixed == \/ ResponsiveWithMixedUnits(x)
                 \/ /\ x.attrs.layout = RESPONSIVE
                    /\ x.attrs.width = "300px"
                    /\ x.attrs.height = "200"
    IN mixed =>
         /\ applyLayout_(x.attrs, x.tagName).err = UnitsMessage
         /\ x.ui = NoUi
         /\ x.layout_ = NODISPLAY
         /\ x.everAttached => x.hist.firstAttachRuns = 1

\* An attached element with layout="responsive" width="300px" height="200":
\* its first attach ran and left it without a layout.
C8_Witness ==
  \E e \in Elements :
    /\ el[e].attrs = Attrs(RESPONSIVE, "300px", "200", Null, Null, FALSE)
    /\ el[e].hist.firstAttachRuns = 1
    /\ el[e].ui = NoUi
    /\ el[e].inResources

\* The upgrade(...) calls of a trace, in order.
IsUpgradeCall(h) == h.h = "upgrade"

\* The elements of the stubbed-elements list with the tag name, as the
\* upgrade calls the loop is to make on them.
RECURSIVE StubsNamed(_, _, _)
StubsNamed(stubs, els, name) ==
  IF stubs = <<>> THEN <<>>
  ELSE (IF els[Head(stubs)].tagName = name
        THEN <<Hook(Head(stubs), "upgrade")>> ELSE <<>>)
       \o StubsNamed(Tail(stubs), els, name)

RegisterOver(name, toClass, beh) ==
  upgradeOrRegisterElement(knownElements, stubbedElements, el, name, toClass, beh)

\* C9 as stated: registering a real implementation for a name mapped to the
\* Stub leaves every stub element of that tag name with the new
\* implementation.
C9_Original ==
  \A name \in Names, toClass \in Classes, beh \in [Elements -> Behaviours] :
    knownElements[name] = ElementStub =>
      \A e \in Elements :
        el[e].tagName = name =>
          RegisterOver(name, toClass, beh).els[e].implementation_.cls = toClass

\* C9: registering a real implementation for a name mapped to the Stub
\* calls upgrade on every stub element of that tag name, in the order of
\* the stubbed-elements list, whichever of these calls throw; each thrown
\* error is caught and reported; the elements outside a template get the
\* new implementation and the ones in a template stay stubs; elements of
\* other tag names are untouched; and the registry maps the name to the new
\* implementation afterwards.
C9_RegisterUpgradesStubs ==
  \A name \in Names, toClass \in Classes, beh \in [Elements -> Behaviours] :
    knownElements[name] = ElementStub =>
      LET r == RegisterOver(name, toClass, beh)
          named == {e \in Elements : el[e].tagName = name}
      IN /\ r.err = ""
         /\ r.known = [knownElements EXCEPT ![name] = toClass]
         /\ SelectSeq(r.tr, IsUpgradeCall) = StubsNamed(stubbedElements, el, name)
         /\ Len(StubsNamed(stubbedElements, el, name)) = Cardinality(named)
         /\ r.rep = Cardinality({e \in named :
                                   upgrade(el[e], e, toClass, beh[e]).err # ""})
         /\ \A e \in Elements :
              IF e \in named
              THEN /\ ~isUpgraded(el[e])
                   /\ r.els[e] = WithHistory(upgrade(el[e], e, toClass, beh[e]), e)
                   /\ r.els[e].implementation_.cls =
                        IF el[e].isInTemplate_ = "true" THEN ElementStub ELSE toClass
              ELSE r.els[e] = el[e]

\* Two elements of one tag name were attached as stubs with a FIXED layout
\* and then upgraded to ImplBase, which supports NODISPLAY only: the upgrade
\* of the first threw, and the second was upgraded all the same.
C9_Witness ==
  /\ Len(el) >= 2
  /\ el[1].tagName = el[2].tagName
  /\ \A e \in {1, 2} :
       /\ el[e].implementation_.cls = "ImplBase"
       /\ el[e].hist.events = <<"amp:stubbed">>
       /\ el[e].layout_ = FIXED
  /\ knownElements[el[1].tagName] = "ImplBase"

\* The lists stubElements may find in the document.
StubLists == {<<>>} \cup {<<n>> : n \in Names} \cup {<<n, m>> : n, m \in Names}

InsertedBefore(x) == x.everAttached \/ x.isInTemplate_ # Undefined

\* The hooks of the first-attach flow are absent from a trace.
NoFirstAttach(o, e) ==
  /\ ~Has(o.tr, e, "firstAttachedCallback_")
  /\ ~Has(o.tr, e, "firstAttachedCallback")
  /\ o.ev = <<>>

\* C11 as stated: the first-attach flow runs at most once, and an
\* attachedCallback on a detached element that was inserted before only
\* re-adds the element to the resource tracker.
C11_Original ==
  \A e \in Elements :
    /\ el[e].hist.firstAttachRuns <= 1
    /\ (InsertedBefore(el[e]) /\ ~el[e].inDocument) =>
         \A inTemplate \in BOOLEAN, beh \in {"ok", "attachedThrows"} :
           LET o == attachedCallback(el[e], e, TEMPLATE_TAG_SUPPORTED, inTemplate, beh)
           IN NoFirstAttach(o, e) /\ o.tr = <<Hook(e, "resources.add")>>

\* C11: attachedCallback runs the first-attach flow at most once per
\* element, on the first insertion outside a template; everAttached is true
\* exactly from that run on and no step sets it back to false; an
\* attachedCallback on an element whose everAttached is true runs no part
\* of the flow, reports nothing and only re-adds the element to the
\* resource tracker, or does nothing when the element is now in a template.
C11_FirstAttachOnce ==
  /\ [][\A e \in Elements : el[e].everAttached => el'[e].everAttached]_vars
  /\ [](\A e \in Elements :
          /\ el[e].hist.firstAttachRuns <= 1
          /\ el[e].everAttached <=> el[e].hist.firstAttachRuns = 1
          /\ el[e].everAttached =>
               \A inTemplate \in BOOLEAN, beh \in {"ok", "attachedThrows"} :
                 LET o == attachedCallback(el[e], e, TEMPLATE_TAG_SUPPORTED,
                                           inTemplate, beh)
                     t == IF TEMPLATE_TAG_SUPPORTED THEN el[e].isInTemplate_
                          ELSE Bool(inTemplate)
                 IN /\ NoFirstAttach(o, e)
                    /\ o.rep = 0 /\ o.err = ""
                    /\ o.tr = IF t = "true" THEN <<>> ELSE <<Hook(e, "resources.add")>>
                    /\ o.el = [el[e] EXCEPT !.isInTemplate_ = t,
                                            !.inResources = IF t = "true" THEN @
                                                            ELSE TRUE])

\* An element that ran its first-attach flow was inserted again, this time
\* in a template: the flow has still run once.
C11_Witness ==
  \E e \in Elements :
    /\ el[e].everAttached
    /\ el[e].hist.firstAttachRuns = 1
    /\ el[e].isInTemplate_ = "true"
    /\ el[e].inDocument

\* A timer that is to drain the action queue of element e is pending.
DrainPending(e) ==
  \E k \in 1..Len(timers) : timers[k].fn = "dequeueActions_" /\ timers[k].e = e

\* C12: in every state, and whether the element is in the viewport or not,
\* build() on an upgraded, unbuilt element whose build hook throws reports
\* the error once and rethrows it, changes no field of the element (built_
\* stays false, the 'not-built' flag and the queue with its invocations are
\* kept), schedules no timer and calls nothing on the implementation but
\* the build hook.  An unbuilt element has the flag, its queue, and no drain
\* pending.
C12_BuildHookThrows ==
  \A e \in Elements :
    /\ ~el[e].built_ =>
         /\ el[e].notbuilt
         /\ el[e].actionQueue_.defined
         /\ ~DrainPending(e)
    /\ (assertNotTemplate_(el[e]) /\ ~isBuilt(el[e]) /\ isUpgraded(el[e])) =>
         \A inViewport \in BOOLEAN :
           LET x == [el[e] EXCEPT !.isInViewport_ = inViewport]
               o == build(x, e, "buildThrows")
           IN /\ o.err = "hook: buildCallback"
              /\ o.rep = 1
              /\ o.el = x
              /\ o.tm = <<>> /\ o.vs = <<>> /\ o.ex = <<>>
              /\ o.tr = <<Hook(e, "buildCallback")>>

\* The build hook of an element threw while two invocations were queued or
\* before they were: the element is unbuilt, flagged, and the queue holds
\* them with no drain pending.
C12_Witness ==
  \E e \in Elements :
    /\ el[e].hist.buildFailed
    /\ ~el[e].built_ /\ el[e].notbuilt
    /\ el[e].actionQueue_.items = <<1, 2>>
    /\ timers = <<>> /\ executed = <<>>

\* The first-attach flow that attachedCallback would run on x.
FirstAttachOf(x, e, beh) ==
  firstAttachedCallback_([x EXCEPT !.everAttached = TRUE], e, beh)

\* attachedCallback on e would run the first-attach flow, and the flow
\* would fail.
FirstAttachFails(e, inTemplate, beh) ==
  /\ ~el[e].everAttached
  /\ (IF TEMPLATE_TAG_SUPPORTED THEN el[e].isInTemplate_ ELSE Bool(inTemplate)) # "true"
  /\ FirstAttachOf(el[e], e, beh).err # ""

AttachOf(e, inTemplate, beh) ==
  attachedCallback(el[e], e, TEMPLATE_TAG_SUPPORTED, inTemplate, beh)

\* C13 as stated: an exception of the first-attach flow is reported and
\* rethrown, so that attachedCallback fails with it.
C13_Original ==
  \A e \in Elements, inTemplate \in BOOLEAN, beh \in {"ok", "attachedThrows"} :
    FirstAttachFails(e, inTemplate, beh) =>
      /\ AttachOf(e, inTemplate, beh).rep >= 1
      /\ AttachOf(e, inTemplate, beh).err = FirstAttachOf(el[e], e, beh).err

\* C13: an exception raised in the first attach by layout resolution, by
\* the layout-support check or by the implementation's first-attach hook is
\* reported and rethrown by firstAttachedCallback_; attachedCallback
\* catches it, reports it a second time and does not throw: it returns
\* normally with everAttached true, no event dispatched and the element
\* added to the resource tracker.
C13_FirstAttachErrorCaught ==
  \A e \in Elements, inTemplate \in BOOLEAN, beh \in {"ok", "attachedThrows"} :
    FirstAttachFails(e, inTemplate, beh) =>
      LET f == FirstAttachOf(el[e], e, beh)
          o == AttachOf(e, inTemplate, beh)
      IN /\ f.rep = 1
         /\ f.err \in {"Unknown layout", "Layout not supported for",
                       "hook: firstAttachedCallback"}
         /\ o.err = ""
         /\ o.rep = 2
         /\ o.ev = <<>>
         /\ o.el.everAttached /\ o.el.inResources
         /\ o.tr = Append(f.tr, Hook(e, "resources.add"))

\* An element whose layout attribute is unknown was attached: the flow ran
\* and failed, and the element is attached and tracked all the same.
C13_Witness ==
  \E e \in Elements :
    /\ el[e].attrs.layout = "bogus"
    /\ el[e].hist.firstAttachRuns = 1
    /\ el[e].hist.events = <<>>
    /\ el[e].everAttached /\ el[e].inResources /\ el[e].inDocument

\* C14: the implementation's 'first layout completed' hook is invoked on
\* the first layout completion of an element and on no later one: at most
\* once per element, over any sequence of layouts and unlayouts.
C14_FirstLayoutCompletedOnce ==
  \A e \in Elements : el[e].hist.firstLayouts <= 1

\* The layout promise of element e is pending.
LayoutPending(e) == \E k \in 1..Len(promises) : promises[k] = e

\* C15: in every state with a layout of the element pending, the rejection
\* of the layout promise throws the same reason on, asks the indicator to
\* hide with cleanup (loadingState_ false and, when there is an indicator,
\* a vsync mutation with cleanup), invokes no hook of the implementation
\* and changes nothing else: layoutCount_ and readyState are kept.
C15_LayoutRejected ==
  \A e \in Elements :
    (LayoutPending(e) /\ assertNotTemplate_(el[e])) =>
      LET o == layoutRejected(el[e], e)
      IN /\ o.err = "reason"
         /\ o.el = [el[e] EXCEPT !.loadingState_ = "false"]
         /\ o.el.layoutCount_ = el[e].layoutCount_
         /\ o.el.readyState = el[e].readyState
         /\ o.tr = <<>> /\ o.tm = <<>>
         /\ o.vs = IF el[e].loadingContainer_ = Null THEN <<>>
                   ELSE <<[fn |-> "toggleLoading", e |-> e, cleanup |-> TRUE]>>

\* The layout of an element that showed its indicator was rejected: no
\* layout was ever fulfilled, the count is 0, readyState is 'loading', and
\* the removal of the indicator, which only a hide with cleanup defers, is
\* pending.
C15_Witness ==
  \E e \in Elements :
    /\ el[e].hist.fulfilled = 0
    /\ el[e].layoutCount_ = 0
    /\ el[e].readyState = "loading"
    /\ el[e].hist.firstLayouts = 0
    /\ deferred = <<e>>
    /\ promises = <<>>

\* The element holds a real implementation whose build hook has returned.
UpgradedAndBuilt(x) == x.built_ /\ x.implementation_.cls # ElementStub

ImplementationHooks ==
  {"layoutCallback", "viewportCallback(true)", "viewportCallback(false)",
   "pauseCallback", "resumeCallback", "unlayoutCallback"}

NoImplementationHook(o, e) == \A h \in ImplementationHooks : ~Has(o.tr, e, h)

\* C16: in every state of an element (outside a template) that is not both
\* upgraded and built, pauseCallback and resumeCallback do nothing,
\* unlayoutCallback returns false and does nothing, viewportCallback sets
\* isInViewport_ and calls nothing on the implementation, and
\* layoutCallback fails its assertion, changes nothing and calls nothing;
\* in the states that are upgraded and built each of them invokes its hook.
C16_HooksNeedUpgradedAndBuilt ==
  \A e \in Elements :
    assertNotTemplate_(el[e]) =>
      LET x == el[e]
          pause == pauseOrResumeCallback(x, e, "pauseCallback")
          resume == pauseOrResumeCallback(x, e, "resumeCallback")
          layout == layoutCallback(x, e)
      IN IF ~UpgradedAndBuilt(x)
         THEN /\ pause = Outcome(x)
              /\ resume = Outcome(x)
              /\ \A answer \in BOOLEAN :
                   unlayoutCallback(x, e, answer) = [Outcome(x) EXCEPT !.ret = "false"]
              /\ \A inViewport \in BOOLEAN :
                   LET o == viewportCallback(x, e, inViewport)
                   IN /\ o.el.isInViewport_ = inViewport
                      /\ o.el.implementation_ = x.implementation_
                      /\ o.err = ""
                      /\ NoImplementationHook(o, e)
              /\ layout.err = "assert: Must be upgraded and built"
              /\ layout.el = x
              /\ layout.tr = <<>> /\ layout.ev = <<>>
         ELSE /\ pause.tr = <<Hook(e, "pauseCallback")>>
              /\ resume.tr = <<Hook(e, "resumeCallback")>>
              /\ \A answer \in BOOLEAN :
                   unlayoutCallback(x, e, answer).tr = <<Hook(e, "unlayoutCallback")>>
              /\ \A inViewport \in BOOLEAN :
                   viewportCallback(x, e, inViewport).el.implementation_.inViewport_
                     = inViewport
              /\ Has(layout.tr, e, "layoutCallback")

\* viewportCallback(true) has run on a stub that is not built: the element
\* records the viewport state and the implementation was not told.
C16_Witness ==
  \E e \in Elements :
    /\ el[e].isInViewport_
    /\ ~el[e].built_
    /\ ~isUpgraded(el[e])
    /\ ~el[e].implementation_.inViewport_
    /\ el[e].isInTemplate_ # "true"

\* C17: in every reachable state a built element holds a real
\* implementation; build() on an element that still holds the Stub fails
\* the 'Cannot build unupgraded element' assertion, invokes no hook and
\* changes nothing, whatever the build hook would do; and no step sets
\* built_ back to false.
C17_BuiltIsUpgraded ==
  /\ [](\A e \in Elements :
          /\ el[e].built_ => el[e].implementation_.cls # ElementStub
          /\ (el[e].implementation_.cls = ElementStub /\ assertNotTemplate_(el[e])) =>
               \A beh \in {"ok", "buildThrows"} :
                 LET o == build(el[e], e, beh)
                 IN /\ o.err = "assert: Cannot build unupgraded element"
                    /\ o.el = el[e]
                    /\ o.tr = <<>> /\ o.tm = <<>> /\ o.rep = 0)
  /\ [][\A e \in Elements : el[e].built_ => el'[e].built_]_vars

\* An element that was attached while it held the Stub is built, with the
\* real implementation it was upgraded to.
C17_Witness ==
  \E e \in Elements :
    /\ el[e].built_
    /\ el[e].hist.buildCallbacks = 1
    /\ el[e].implementation_.cls \in Classes
    /\ el[e].hist.events = <<"amp:stubbed", "amp:attached">>

\* The request of toggleLoading_(true) has left a mark on the outcome: a
\* vsync mutation, or a change of the loading fields of the element.
IndicatorRequested(x, o) ==
  \/ o.vs # <<>>
  \/ o.el.loadingState_ # x.loadingState_
  \/ o.el.loadingDisabled_ # x.loadingDisabled_
  \/ o.el.loadingContainer_ # x.loadingContainer_

ShowTimer(e) == [fn |-> "viewport", e |-> e, ms |-> 100]

\* C18: in every state of an element outside a template,
\* viewportCallback(true) with layoutCount_ = 0 schedules the 100ms timer
\* and requests nothing of the indicator; with layoutCount_ >= 1 it
\* schedules no timer and requests nothing; and the timer, when it
\* expires, requests the indicator with toggleLoading_(true) if the element
\* is in the viewport and layoutCount_ is 0 at that moment, and does
\* nothing at all otherwise.
C18_DebouncedShow ==
  \A e \in Elements :
    assertNotTemplate_(el[e]) =>
      LET x == el[e]
          o == viewportCallback(x, e, TRUE)
          t == viewportTimer(x, e)
      IN /\ o.err = ""
         /\ ~IndicatorRequested(x, o)
         /\ o.tm = IF x.layoutCount_ = 0 THEN <<ShowTimer(e)>> ELSE <<>>
         /\ IF x.layoutCount_ = 0 /\ x.isInViewport_
            THEN /\ t.el.loadingState_ = Bool(isLoadingEnabled_(x))
                 /\ t.vs = IF isLoadingEnabled_(x)
                           THEN <<[fn |-> "toggleLoading", e |-> e, cleanup |-> FALSE]>>
                           ELSE <<>>
            ELSE t = Outcome(x)

\* The element is in the viewport with nothing laid out, no timer is left
\* pending, and the indicator was requested and made visible.
C18_Witness ==
  \E e \in Elements :
    /\ el[e].isInViewport_
    /\ el[e].layoutCount_ = 0
    /\ el[e].hist.fulfilled = 0
    /\ el[e].loadingState_ = "true"
    /\ el[e].loadingContainer_ = "visible"
    /\ timers = <<>>

\* Timer k of the viewport has fired in this step.
Fired(k) == timers[k].fn = "viewport" /\ timers' = RemoveAt(timers, k)

\* A layout of the element was fulfilled after timer k was scheduled: the
\* layout state has changed before the delay elapsed.
LayoutChangedSince(k) == el[timers[k].e].hist.fulfilled > timers[k].at

\* This step has requested or changed nothing of the indicator of e.
NoShow(e) ==
  /\ vsyncQueue' = vsyncQueue
  /\ el'[e].loadingState_ = el[e].loadingState_
  /\ el'[e].loadingContainer_ = el[e].loadingContainer_

\* C19 as stated: a timer scheduled by a viewport entry before the layout
\* state changed is a no-op when it fires.
C19_Original ==
  [][\A k \in 1..Len(timers) :
       (Fired(k) /\ LayoutChangedSince(k)) => NoShow(timers[k].e)]_vars

\* C19: a pending show is validated when its timer fires, against the
\* state of that moment only.  If the element is then out of the viewport
\* or has layoutCount_ >= 1 the timer changes nothing; if it is in the
\* viewport with layoutCount_ = 0, the timer requests the indicator with
\* toggleLoading_(true), also when a layout was fulfilled and reset by an
\* unlayout since the timer was scheduled.
C19_ValidatedAtExpiry ==
  [][\A k \in 1..Len(timers) :
       Fired(k) =>
         LET e == timers[k].e
         IN IF el[e].layoutCount_ = 0 /\ el[e].isInViewport_
            THEN LET o == toggleLoading_(Outcome(el[e]), e, TRUE, FALSE)
                 IN /\ el'[e] = o.el
                    /\ vsyncQueue' = vsyncQueue \o o.vs
                    /\ el'[e].loadingState_ = Bool(isLoadingEnabled_(el[e]))
            ELSE el' = el /\ vsyncQueue' = vsyncQueue]_vars

\* A timer is pending that was scheduled before a layout was fulfilled; the
\* layout was reset since, the element is in the viewport and may show its
\* indicator: when the timer fires, it requests it.
C19_Witness ==
  \E k \in 1..Len(timers) :
    /\ timers[k].fn = "viewport"
    /\ LayoutChangedSince(k)
    /\ el[timers[k].e].layoutCount_ = 0
    /\ el[timers[k].e].isInViewport_
    /\ isLoadingEnabled_(el[timers[k].e])

\* The new implementation class does not support the layout of the element.
Unsupported(x, cls) == x.layout_ # NODISPLAY /\ ~isLayoutSupported(cls, x.layout_)

\* C20 as stated: upgrade() of an element whose layout the new
\* implementation does not support fails with 'Layout not supported' and
\* replays nothing.
C20_Original ==
  \A e \in Elements, cls \in Classes :
    (~isUpgraded(el[e]) /\ Unsupported(el[e], cls)) =>
      /\ UpgradeOf(e, cls, "ok").err = "Layout not supported"
      /\ NoReplay(UpgradeOf(e, cls, "ok"), e)

\* C20: upgrade() of an element outside a template, whose layout is not
\* NODISPLAY and is not supported by the new implementation, fails with
\* 'Layout not supported' once the new implementation's creation hook has
\* returned (with the hook's own error when it throws): the implementation
\* is already replaced, its layout is not set, the first-attach hook is not
\* invoked, no 'amp:attached' is dispatched and resources.upgraded() is not
\* called.  Inside a template upgrade() returns at once and does not fail.
C20_LayoutNotSupported ==
  \A e \in Elements, cls \in Classes, beh \in Behaviours :
    (~isUpgraded(el[e]) /\ Unsupported(el[e], cls)) =>
      LET o == UpgradeOf(e, cls, beh)
      IN IF el[e].isInTemplate_ = "true" THEN o = Outcome(el[e])
         ELSE /\ o.err = IF beh = "createdThrows" THEN "hook: createdCallback"
                         ELSE "Layout not supported"
              /\ NoReplay(o, e)
              /\ o.tr = <<Hook(e, "createdCallback")>>
              /\ o.el = [el[e] EXCEPT !.implementation_ = NewImplementation(cls)]

\* An element attached as a stub with a layout that ImplBase does not
\* support was upgraded to ImplBase: the upgrade stopped at the layout
\* check, before the layout reached the implementation and before any
\* replay.
C20_Witness ==
  \E e \in Elements :
    /\ el[e].implementation_.cls = "ImplBase"
    /\ el[e].layout_ \in {FIXED, CONTAINER}
    /\ el[e].implementation_.layout_ = NODISPLAY
    /\ el[e].hist.events = <<"amp:stubbed">>
    /\ el[e].hist.firstAttachHooks = 0
    /\ el[e].isInTemplate_ # "true"

\* What the first attachedCallback on element e does, outside a template,
\* when the implementation's first-attach hook behaves as beh.
FirstAttach(e, beh) == attachedCallback(el[e], e, TRUE, FALSE, beh)

\* The first-attach flow of outcome o of element e ran to its end: the
\* layout was resolved and is supported, and the hook returned.
FirstAttachCompleted(o, e, beh) ==
  /\ applyLayout_(el[e].attrs, el[e].tagName).err = ""
  /\ o.el.layout_ = NODISPLAY
       \/ isLayoutSupported(el[e].implementation_.cls, o.el.layout_)
  /\ beh = "ok"

\* C21: a first attach that completes without error dispatches exactly one
\* event on the element, 'amp:stubbed' when the element still holds the
\* Stub and 'amp:attached' when it holds a real implementation; a first
\* attach that fails (layout validation, unsupported layout or a throwing
\* first-attach hook) reports an error and dispatches nothing.  This holds
\* for firstAttachedCallback_ itself and for the attachedCallback around it.
C21_FirstAttachEvent ==
  \A e \in Elements, beh \in {"ok", "attachedThrows"} :
    (~el[e].everAttached /\ el[e].isInTemplate_ # "true") =>
      LET f == firstAttachedCallback_([el[e] EXCEPT !.everAttached = TRUE], e, beh)
          o == FirstAttach(e, beh)
      IN /\ (f.err = "") <=> FirstAttachCompleted(f, e, beh)
         /\ o.ev = f.ev
         /\ IF FirstAttachCompleted(f, e, beh)
            THEN /\ f.ev = <<IF el[e].implementation_.cls = ElementStub
                             THEN "amp:stubbed" ELSE "amp:attached">>
                 /\ f.rep = 0
            ELSE f.ev = <<>> /\ f.rep = 1

\* An element created with a real implementation was attached for the
\* first time with a RESPONSIVE layout: 'amp:attached' is the one event.
C21_Witness ==
  \E e \in Elements :
    /\ el[e].everAttached
    /\ el[e].layout_ = RESPONSIVE
    /\ el[e].implementation_.cls = "ImplFull"
    /\ el[e].hist.events = <<"amp:attached">>
    /\ el[e].hist.firstAttachHooks = 1

\* The effective layout, width and height of attributes a on a tag, as
\* layout resolution computes them once the attributes have been parsed.
Effective(a, tagName) ==
  LET inputLayout == IF Truthy(a.layout) THEN parseLayout(a.layout) ELSE Null
      inputWidth == IF Truthy(a.width) /\ a.width # "auto"
                    THEN parseLength(a.width) ELSE a.width
      inputHeight == IF Truthy(a.height) THEN parseLength(a.height) ELSE Null
      size == EffectiveSize(a, tagName, inputLayout, inputWidth, inputHeight)
  IN [layout |-> EffectiveLayout(a, inputLayout, size.width, size.height),
      width |-> size.width, height |-> size.height]

UnknownToken(a) == Truthy(a.layout) /\ a.layout \notin Layout

InvalidLength(a) ==
  \/ Truthy(a.width) /\ a.width # "auto" /\ a.width \notin Lengths
  \/ Truthy(a.height) /\ a.height \notin Lengths

\* The per-layout rules the claim lists, on the effective layout, width
\* and height.
ListedViolation(a, tagName) ==
  \/ UnknownToken(a)
  \/ LET f == Effective(a, tagName)
     IN \/ f.layout \in {FIXED, FIXED_HEIGHT, RESPONSIVE} /\ ~Truthy(f.height)
        \/ f.layout = FIXED_HEIGHT /\ Truthy(f.width) /\ f.width # "auto"
        \/ f.layout \in {FIXED, RESPONSIVE} /\ (~Truthy(f.width) \/ f.width = "auto")
        \/ f.layout # RESPONSIVE /\ a.heights # Null

UnitsDiffer(a, tagName) ==
  LET f == Effective(a, tagName)
  IN f.layout = RESPONSIVE /\ getLengthUnits(f.width) # getLengthUnits(f.height)

Rejected(x) == applyLayout_(x.attrs, x.tagName).err # ""

\* C22 as stated: layout resolution rejects exactly the attribute
\* combinations that violate one of the listed rules.
C22_Original ==
  \A e \in Elements :
    ~el[e].everAttached => (Rejected(el[e]) <=> ListedViolation(el[e].attrs, el[e].tagName))

\* C22, amended: layout resolution rejects every attribute combination
\* that violates a listed rule (read on the effective layout, width and
\* height), and besides them a width or height that is no length and a
\* RESPONSIVE layout whose width and height have different units; it
\* accepts every other combination.  A rejection leaves the first attach
\* with that error.
C22_LayoutValidation ==
  \A e \in Elements :
    ~el[e].everAttached =>
      LET a == el[e].attrs
          n == el[e].tagName
      IN /\ ListedViolation(a, n) => Rejected(el[e])
         /\ Rejected(el[e]) <=>
              \/ UnknownToken(a)
              \/ InvalidLength(a)
              \/ ListedViolation(a, n)
              \/ UnitsDiffer(a, n)
         /\ Rejected(el[e]) =>
              firstAttachedCallback_(el[e], e, "ok").err
                = applyLayout_(a, n).err

\* An element with layout fixed-height and a width of 300 was attached:
\* the resolution was rejected, the layout stayed NODISPLAY and no event
\* was dispatched.
C22_Witness ==
  \E e \in Elements :
    /\ el[e].everAttached
    /\ el[e].attrs.layout = FIXED_HEIGHT
    /\ el[e].attrs.width = "300"
    /\ el[e].attrs.height = "200"
    /\ el[e].layout_ = NODISPLAY
    /\ el[e].hist.firstAttachRuns = 1
    /\ el[e].hist.events = <<>>

\* The calls that are neither a layout completion nor unlayoutCallback
\* leave layoutCount_ of x as it is.
KeepsLayoutCount(x, e) ==
  /\ \A cls \in Classes, beh \in Behaviours :
       upgrade(x, e, cls, beh).el.layoutCount_ = x.layoutCount_
  /\ \A beh \in {"ok", "buildThrows"} : build(x, e, beh).el.layoutCount_ = x.layoutCount_
  /\ \A ts, inTemplate \in BOOLEAN, beh \in {"ok", "attachedThrows"} :
       attachedCallback(x, e, ts, inTemplate, beh).el.layoutCount_ = x.layoutCount_
  /\ detachedCallback(x, e).el.layoutCount_ = x.layoutCount_
  /\ \A inViewport \in BOOLEAN :
       viewportCallback(x, e, inViewport).el.layoutCount_ = x.layoutCount_
  /\ viewportTimer(x, e).el.layoutCount_ = x.layoutCount_
  /\ \A h \in {"pauseCallback", "resumeCallback"} :
       pauseOrResumeCallback(x, e, h).el.layoutCount_ = x.layoutCount_
  /\ layoutCallback(x, e).el.layoutCount_ = x.layoutCount_
  /\ layoutRejected(x, e).el.layoutCount_ = x.layoutCount_
  /\ unlayoutCallback(x, e, FALSE).el.layoutCount_ = x.layoutCount_

\* C23: layoutCount_ is 0 on a new element; every fulfilled layout adds
\* exactly one to it; it decreases only by the reset to 0 of an
\* unlayoutCallback whose hook answers true, on a built and upgraded
\* element; and upgrade, build, attach, detach, viewport change, the
\* viewport timer, pause, resume, the start of a layout, a rejected layout
\* and an unlayoutCallback answering false leave it as it is.
C23_LayoutCount ==
  /\ [](\A e \in Elements :
          /\ el[e].layoutCount_ >= 0
          /\ el[e].layoutCount_ <= el[e].hist.fulfilled
          /\ el[e].hist.fulfilled = 0 => el[e].layoutCount_ = 0
          /\ KeepsLayoutCount(el[e], e))
  /\ [][\A e \in Elements :
          LET n == el[e].layoutCount_
              m == el'[e].layoutCount_
              completed == el'[e].hist.fulfilled = el[e].hist.fulfilled + 1
          IN /\ completed => m = n + 1
             /\ m # n =>
                  \/ completed
                  \/ /\ m = 0
                     /\ UpgradedAndBuilt(el[e])
                     /\ el'[e] = WithHistory(unlayoutCallback(el[e], e, TRUE), e)]_vars

\* Two layouts were fulfilled and layoutCount_ is 1: the count went to 1,
\* back to 0 and to 1 again.
C23_Witness ==
  \E e \in Elements :
    /\ el[e].hist.fulfilled = 2
    /\ el[e].layoutCount_ = 1
    /\ el[e].readyState = "complete"

DrainTimers(e) ==
  {k \in 1..Len(timers) : timers[k].fn = "dequeueActions_" /\ timers[k].e = e}

\* The invocations of the queue of x, as the drain is to execute them.
DrainOf(x, e, thr) ==
  [i \in 1..Len(x.actionQueue_.items) |->
     [e |-> e, inv |-> x.actionQueue_.items[i], deferred |-> TRUE,
      threw |-> x.actionQueue_.items[i] \in thr]]

\* C24: build() executes no queued invocation; a successful build of an
\* element whose queue holds invocations keeps the queue and schedules the
\* one drain timer, and with an empty queue it discards the queue and
\* schedules nothing; at most one drain timer is ever pending, and only on
\* a built element that still has its queue; the drain, run by that timer,
\* executes every invocation of the queue once, with the deferred flag, and
\* discards the queue; a drain on an element without queue does nothing;
\* invocations are executed with the deferred flag only in a timer step,
\* none is executed twice, and once the queue is gone every accepted
\* invocation has been executed.
C24_DrainOnceAfterBuild ==
  /\ [](\A e \in Elements :
          LET x == el[e] IN
          /\ \A beh \in {"ok", "buildThrows"} : build(x, e, beh).ex = <<>>
          /\ (assertNotTemplate_(x) /\ ~isBuilt(x) /\ isUpgraded(x)) =>
               LET o == build(x, e, "ok")
               IN IF x.actionQueue_.items # <<>>
                  THEN /\ o.tm = <<[fn |-> "dequeueActions_", e |-> e, ms |-> 1]>>
                       /\ o.el.actionQueue_ = x.actionQueue_
                  ELSE /\ o.tm = <<>>
                       /\ ~o.el.actionQueue_.defined
          /\ Cardinality(DrainTimers(e)) <= 1
          /\ DrainTimers(e) # {} =>
               x.built_ /\ x.actionQueue_.defined /\ x.actionQueue_.items # <<>>
          /\ (x.built_ /\ x.actionQueue_.defined) => DrainTimers(e) # {}
          /\ \A thr \in SUBSET (1..MaxActions) :
               LET d == dequeueActions_(x, e, thr)
               IN IF x.actionQueue_.defined
                  THEN d.ex = DrainOf(x, e, thr) /\ ~d.el.actionQueue_.defined
                  ELSE d = Outcome(x)
          /\ ~x.actionQueue_.defined =>
               \A n \in 1..submitted :
                 Cardinality({i \in 1..Len(executed) : executed[i].inv = n}) = 1)
  /\ [](\A i, j \in 1..Len(executed) : executed[i].inv = executed[j].inv => i = j)
  /\ [][\A i \in 1..Len(executed') :
          (i > Len(executed) /\ executed'[i].deferred) =>
            /\ Len(timers') < Len(timers)
            /\ \A e \in Elements : el'[e].built_ = el[e].built_]_vars

\* After a build hook that threw and a build that succeeded, the drain
\* timer has fired: the two invocations queued before the build were
\* executed with the deferred flag and the queue is gone.
C24_Witness ==
  \E e \in Elements :
    /\ el[e].hist.buildFailed
    /\ el[e].built_
    /\ ~el[e].actionQueue_.defined
    /\ timers = <<>>
    /\ submitted = 2
    /\ Len(executed) = 2
    /\ executed[1].deferred /\ executed[2].deferred
    /\ ~executed[1].threw

\* C25: after the build hook of an element has thrown, the element stays
\* unbuilt for good and a later build() does not invoke the build hook
\* again.
C25_NoRetryAfterBuildFailure ==
  \A e \in Elements :
    el[e].hist.buildFailed =>
      /\ ~el[e].built_
      /\ \A beh \in {"ok", "buildThrows"} :
           ~Has(build(el[e], e, beh).tr, e, "buildCallback")

\* The positions in tr of the calls of hook h on element e.
Positions(tr, e, h) == {k \in 1..Len(tr) : tr[k] = Hook(e, h)}

\* C26: in every state, a successful build() of an element that is in the
\* viewport delivers viewportCallback(true) to the implementation, once and
\* after the build hook, and a build of an element that is not in the
\* viewport delivers no viewport change; after it the implementation's
\* inViewport_ equals the element's isInViewport_.  viewportCallback on an
\* upgraded and built element delivers the change and leaves the two flags
\* equal.  In every reachable state the implementation of a built element
\* has the element's viewport flag, and that of an unbuilt one has false.
C26_ViewportFlushedAtBuild ==
  \A e \in Elements :
    LET x == el[e] IN
    /\ x.built_ => x.implementation_.inViewport_ = x.isInViewport_
    /\ ~x.built_ => ~x.implementation_.inViewport_
    /\ (assertNotTemplate_(x) /\ ~isBuilt(x) /\ isUpgraded(x)) =>
         LET o == build(x, e, "ok")
         IN /\ o.err = "" /\ o.el.built_
            /\ o.el.isInViewport_ = x.isInViewport_
            /\ o.el.implementation_.inViewport_ = x.isInViewport_
            /\ ~Has(o.tr, e, "viewportCallback(false)")
            /\ IF x.isInViewport_
               THEN /\ Calls(o.tr, e, "viewportCallback(true)") = 1
                    /\ \A i \in Positions(o.tr, e, "buildCallback"),
                          j \in Positions(o.tr, e, "viewportCallback(true)") : i < j
               ELSE ~Has(o.tr, e, "viewportCallback(true)")
    /\ (assertNotTemplate_(x) /\ UpgradedAndBuilt(x)) =>
         \A inViewport \in BOOLEAN :
           LET o == viewportCallback(x, e, inViewport)
           IN /\ o.el.isInViewport_ = inViewport
              /\ o.el.implementation_.inViewport_ = inViewport
              /\ Calls(o.tr, e, IF inViewport THEN "viewportCallback(true)"
                                ELSE "viewportCallback(false)") = 1

\* A built element in the viewport whose implementation knows it, with the
\* 100ms timer of the viewport entry still pending and no layout started.
C26_Witness ==
  \E e \in Elements :
    /\ el[e].built_ /\ el[e].hist.buildCallbacks = 1
    /\ el[e].isInViewport_
    /\ el[e].implementation_.inViewport_
    /\ el[e].readyState = "loading"
    /\ \E k \in 1..Len(timers) : timers[k] = ShowTimer(e)

\* Every scheduled vsync mutation and deferred mutation has run.
MutationsDone == vsyncQueue = <<>> /\ deferred = <<>>

\* C27: while layoutCount_ of an element is at least 1 (a layout has
\* completed and was not reset), once every scheduled vsync mutation and
\* deferred mutation has run the element holds no loading container.
C27_IndicatorCleanedUp ==
  \A e \in Elements :
    (el[e].layoutCount_ >= 1 /\ MutationsDone) => el[e].loadingContainer_ = Null

\* C28: readyState is 'loading' on a new element and is 'complete' exactly
\* when a layout of the element has been fulfilled; the step that makes it
\* 'complete' is a layout fulfilment, and no step, unlayoutCallback with
\* the answer true included, takes it back to 'loading'.  In every
\* reachable state layoutCount_ >= 1 implies readyState = 'complete', and
\* readyState = 'complete' implies the element is built and upgraded.
C28_ReadyState ==
  /\ [](\A e \in Elements :
          /\ el[e].readyState \in {"loading", "complete"}
          /\ el[e].readyState = "complete" <=> el[e].hist.fulfilled >= 1
          /\ el[e].layoutCount_ >= 1 => el[e].readyState = "complete"
          /\ el[e].readyState = "complete" => UpgradedAndBuilt(el[e])
          /\ \A answer \in BOOLEAN :
               unlayoutCallback(el[e], e, answer).el.readyState = el[e].readyState)
  /\ [][/\ \A e \in Elements :
             /\ el[e].readyState = "complete" => el'[e].readyState = "complete"
             /\ el'[e].readyState # el[e].readyState =>
                  el'[e].hist.fulfilled = el[e].hist.fulfilled + 1
        /\ \A e \in 1..Len(el') : e > Len(el) => el'[e].readyState = "loading"]_vars

\* readyState is 'complete' although layoutCount_ is 0 again: the one
\* fulfilled layout was reset by unlayoutCallback.
C28_Witness ==
  \E e \in Elements :
    /\ el[e].readyState = "complete"
    /\ el[e].layoutCount_ = 0
    /\ el[e].hist.fulfilled = 1
    /\ el[e].hist.firstLayouts = 1

IsPrefix(s, t) == Len(s) <= Len(t) /\ s = SubSeq(t, 1, Len(s))

\* C29: over every sequence of attach, detach and upgrades driven by the
\* registry, the 'amp:stubbed' and 'amp:attached' events dispatched on an
\* element are none, 'amp:stubbed' alone, 'amp:attached' alone, or
\* 'amp:stubbed' followed by 'amp:attached': each at most once, and
\* 'amp:stubbed' first.  Events are only ever added at the end.
C29_LifecycleEvents ==
  /\ [](\A e \in Elements :
          el[e].hist.events \in {<<>>, <<"amp:stubbed">>, <<"amp:attached">>,
                                 <<"amp:stubbed", "amp:attached">>})
  /\ [][\A e \in Elements : IsPrefix(el[e].hist.events, el'[e].hist.events)]_vars

\* Both events were dispatched, 'amp:stubbed' first, on an element that
\* has since been detached.
C29_Witness ==
  \E e \in Elements :
    /\ el[e].hist.events = <<"amp:stubbed", "amp:attached">>
    /\ el[e].everAttached
    /\ ~el[e].inDocument /\ ~el[e].inResources

\* C30: a layout resolution that fails validation applies nothing to the
\* element: no layout class, no style and no sizer, and the first attach
\* around it leaves layout_ at NODISPLAY and the element otherwise as it
\* was.  A resolution applies a sizer exactly when it succeeds with the
\* RESPONSIVE layout, and an element has a sizer only with layout_
\* RESPONSIVE.
C30_FailedResolutionHasNoEffect ==
  \A e \in Elements :
    /\ el[e].ui.sizer => el[e].layout_ = RESPONSIVE
    /\ el[e].ui = NoUi \/ el[e].ui.cls = el[e].layout_
    /\ (el[e].everAttached /\ Rejected(el[e])) =>
         el[e].layout_ = NODISPLAY /\ el[e].ui = NoUi
    /\ ~el[e].everAttached =>
         LET r == applyLayout_(el[e].attrs, el[e].tagName)
             x == [el[e] EXCEPT !.everAttached = TRUE]
             f == firstAttachedCallback_(x, e, "ok")
         IN /\ el[e].layout_ = NODISPLAY /\ el[e].ui = NoUi
            /\ r.ui.sizer <=> (r.err = "" /\ r.layout = RESPONSIVE)
            /\ r.err # "" =>
                 /\ r.ui = NoUi
                 /\ r.layout \notin Layout
                 /\ f.el = x
                 /\ f.ev = <<>>

\* A RESPONSIVE element whose width and height have different units was
\* attached: the resolution failed and nothing was applied.
C30_Witness ==
  \E e \in Elements :
    /\ el[e].everAttached
    /\ el[e].attrs.layout = RESPONSIVE
    /\ el[e].attrs.width = "10em" /\ el[e].attrs.height = "200px"
    /\ el[e].layout_ = NODISPLAY
    /\ el[e].ui = NoUi
    /\ el[e].hist.firstAttachRuns = 1

\* The element holds a real implementation that does not support the
\* layout resolved for the element.
HoldsUnsupporting(x) == isUpgraded(x) /\ Unsupported(x, x.implementation_.cls)

\* C31: the first-attach hook and the build hook are never invoked on an
\* implementation that does not support the element's resolved layout: an
\* element that holds such an implementation is not built, has received no
\* first-attach hook on it, and build() on it invokes no build hook.
C31_HooksNeedSupportedLayout ==
  \A e \in Elements :
    HoldsUnsupporting(el[e]) =>
      /\ ~el[e].built_
      /\ el[e].hist.firstAttachHooks = 0
      /\ \A beh \in {"ok", "buildThrows"} :
           ~Has(build(el[e], e, beh).tr, e, "buildCallback")

\* C32: in every reachable state an element that is not built has its
\* action queue, so that enqueAction on it (outside a template) queues the
\* invocation and fails no assertion.  The queue is discarded only on a
\* built element: by the successful build itself when the queue is empty,
\* and otherwise by the drain timer that the build scheduled; a discarded
\* queue holds nothing and is never created again.
C32_QueueUntilBuilt ==
  /\ [](\A e \in Elements :
          /\ ~el[e].built_ => el[e].actionQueue_.defined
          /\ ~el[e].actionQueue_.defined => el[e].actionQueue_.items = <<>>
          /\ (~el[e].built_ /\ assertNotTemplate_(el[e])) =>
               \A throws \in BOOLEAN :
                 LET o == enqueAction(el[e], e, submitted + 1, throws)
                 IN /\ o.err = ""
                    /\ o.ex = <<>>
                    /\ o.el.actionQueue_.items
                         = Append(el[e].actionQueue_.items, submitted + 1))
  /\ [][/\ \A e \in Elements :
             /\ ~el[e].actionQueue_.defined => ~el'[e].actionQueue_.defined
             /\ (el[e].actionQueue_.defined /\ ~el'[e].actionQueue_.defined) =>
                  IF el[e].built_
                  THEN /\ DrainTimers(e) # {}
                       /\ Len(timers') < Len(timers)
                       /\ el[e].actionQueue_.items # <<>>
                  ELSE /\ el'[e].built_
                       /\ el[e].actionQueue_.items = <<>>
                       /\ timers' = timers
        /\ \A e \in 1..Len(el') :
             e > Len(el) => el'[e].actionQueue_ = [defined |-> TRUE, items |-> <<>>]]_vars

\* The queue of an element was empty at build time and was discarded by the
\* build; the one invocation submitted since was executed directly.
C32_Witness ==
  \E e \in Elements :
    /\ el[e].built_
    /\ ~el[e].actionQueue_.defined
    /\ timers = <<>>
    /\ submitted = 1
    /\ Len(executed) = 1
    /\ ~executed[1].deferred

====
